---- MODULE Spec2Model ----
(***************************************************************************)
\* The tag-maintenance scripts of portfolio_site: each script reads the
\* whole links file, rewrites anchors by regular-expression substitution
\* and writes the file back.
\*
\* The file content is a sequence of lexemes.  A lexeme is either one of
\* the fixed pieces of markup the scripts' patterns spell out (the text
\* it stands for is given beside its definition), a single character, or
\* a word.  The patterns are matched lexeme by lexeme with the character
\* classes, greediness and backtracking of Python's re module.
(***************************************************************************)
EXTENDS Integers, Sequences, FiniteSets, TLC

VARIABLES
    file,       \* the content of the links file
    before,     \* its content before the last run (the original content
                \* where runs interleave)
    lastOp,     \* the script that ran last, and the one before it
    prevOp,
    fixes,      \* the count the last run returned
    exc,        \* the exception that ended the last run, or "none"
    runs,       \* the number of runs so far
    present,    \* whether the links file exists
    csv,        \* the CSV file and the user name list: <<>> when the file
    usernames,  \* does not exist, else <<lines>>
    pc,         \* for every script, where its run stands ("off": not run)
    buf,        \* for every script, the content its run has read
    found,      \* for every script, what its audit returned
    answer,     \* for every script, the operator's answer to its prompt
    log         \* the reads and writes of the file so far, in order

\* the files beside the links file
io == <<present, csv, usernames>>

\* the runs under way
run == <<pc, buf, found, answer, log>>

vars == <<file, before, lastOp, prevOp, fixes, exc, runs, io, run>>

----------------------------------------------------------------------------
\* Lexemes

AOpen    == "A_OPEN"      \* <a href="
Q        == "QUOTE"       \* "
Target   == "TARGET"      \*  target="_blank"   (with its leading blank)
DataTags == "DATA_TAGS"   \* data-tags="
GT       == "GT"          \* >
LT       == "LT"          \* <
AClose   == "A_CLOSE"     \* </a>
SP       == "SPACE"       \* one blank
NL       == "NEWLINE"     \* \n
SL       == "SLASH"       \* /
UND      == "UNDERSCORE"  \* _
HY       == "HYPHEN"      \* -
IGP      == "https://instagram.com/"
DivOpen  == "DIV_OPEN"    \* <div class="link-grid">
DivClose == "DIV_CLOSE"   \* </div>
FlagCO   == "FLAG_CO"     \* the regional-indicator pair C,O (flag of Colombia)

\* Character classes of the patterns, lifted to lexemes
HasQuote == {AOpen, Q, Target, DataTags, DivOpen}   \* the lexemes that hold "
HasGT    == {GT, AClose, DivOpen, DivClose}         \* the lexemes that hold >
HasLT    == {LT, AOpen, AClose, DivOpen, DivClose}  \* the lexemes that hold <
Space    == {SP, NL}                       \* white space

----------------------------------------------------------------------------
\* Strings

Slice(s, i, j) == IF j < i THEN <<>> ELSE SubSeq(s, i, j)

Range(s) == {s[i] : i \in DOMAIN s}

Max(S) == CHOOSE x \in S : \A y \in S : y <= x
Min(S) == CHOOSE x \in S : \A y \in S : x <= y

\* End of the longest run, starting at i, of lexemes that hold no character
\* of Stop: the position just after the run (a greedy  [^..]* ).
RECURSIVE RunEnd(_, _, _)
RunEnd(s, i, Stop) ==
    IF i > Len(s) \/ s[i] \in Stop THEN i ELSE RunEnd(s, i + 1, Stop)

\* str.lower()
Lower(t) ==
    CASE t = "Foo"      -> "foo"
      [] t = "Bob"      -> "bob"
      [] t = "Embassy"  -> "embassy"
      [] t = "EMBASSY"  -> "embassy"
      [] t = "Colombia" -> "colombia"
      [] t = "Cali"     -> "cali"
      [] t = "Dan"      -> "dan"
      [] OTHER          -> t

LowerStr(s) == [i \in DOMAIN s |-> Lower(s[i])]

\* str.replace(old, new) for a one-character old
ReplaceTok(s, old, new) == [i \in DOMAIN s |-> IF s[i] = old THEN new ELSE s[i]]

\* str.replace(old, '') for a one-lexeme old
RECURSIVE RemoveTok(_, _)
RemoveTok(s, old) ==
    IF s = <<>> THEN <<>>
    ELSE IF Head(s) = old THEN RemoveTok(Tail(s), old)
    ELSE <<Head(s)>> \o RemoveTok(Tail(s), old)

\* str.strip(c)
RECURSIVE LStrip(_, _)
LStrip(s, c) == IF s # <<>> /\ Head(s) = c THEN LStrip(Tail(s), c) ELSE s

RECURSIVE RStrip(_, _)
RStrip(s, c) ==
    IF s # <<>> /\ s[Len(s)] = c THEN RStrip(SubSeq(s, 1, Len(s) - 1), c) ELSE s

Strip(s, c) == RStrip(LStrip(s, c), c)

\* len(str): the number of characters a lexeme stands for
CharLen(t) ==
    CASE t = IGP -> 22
      [] t \in {"foo", "Foo", "bob", "Bob"} -> 3
      [] OTHER -> 1

RECURSIVE StrLen(_)
StrLen(s) == IF s = <<>> THEN 0 ELSE CharLen(Head(s)) + StrLen(Tail(s))

\* str.split(): the maximal runs without white space, in order
RECURSIVE Split(_)
Split(s) ==
    IF s = <<>> THEN <<>>
    ELSE IF Head(s) \in Space THEN Split(Tail(s))
    ELSE LET e == RunEnd(s, 1, Space)
         IN  <<Slice(s, 1, e - 1)>> \o Split(Slice(s, e, Len(s)))

\* sep.join(list)
RECURSIVE Join(_, _)
Join(sep, l) ==
    IF l = <<>> THEN <<>>
    ELSE IF Len(l) = 1 THEN l[1]
    ELSE l[1] \o <<sep>> \o Join(sep, Tail(l))

\* str.split('\n'): the pieces between line feeds, empty pieces included
RECURSIVE SplitLines(_)
SplitLines(s) ==
    LET e == RunEnd(s, 1, {NL})
    IN  IF e > Len(s) THEN <<s>>
        ELSE <<Slice(s, 1, e - 1)>> \o SplitLines(Slice(s, e + 1, Len(s)))

\* Code-point order of the lexemes that can stand in a tag or a sort key.  No word
\* begins with a letter that is also a single-character lexeme, so
\* comparing lexeme by lexeme is comparing the strings.
TagOrder ==
    << NL, SP, Q, HY, SL, LT, GT, "Foo", UND,
       "andean", "bilateral", "bob", "bongo", "cali", "co", "colombia",
       "colombian", "dan", "diplomatic", "embassy", "foo", "foreign-affairs",
       "government", "international-relations", "latin-america", "museum",
       "pacific", "q", "salsa-capital", "seafood", "south-america",
       "spanish-speaking",
       "valle-del-cauca", "x", "y", "z" >>

RankOf == [t \in Range(TagOrder) |-> CHOOSE i \in DOMAIN TagOrder : TagOrder[i] = t]

Rank(t) == RankOf[t]

\* a < b for strings
StrLess(a, b) ==
    \E i \in 1..(Len(a) + 1) :
        /\ i <= Len(b)
        /\ \A k \in 1..(i - 1) : a[k] = b[k]
        /\ (i = Len(a) + 1 \/ Rank(a[i]) < Rank(b[i]))

\* sorted(set)
RECURSIVE Sorted(_)
Sorted(S) ==
    IF S = {} THEN <<>>
    ELSE LET m == CHOOSE x \in S : \A y \in S \ {x} : StrLess(x, y)
         IN  <<m>> \o Sorted(S \ {m})

\* keyword in text, for the keywords and texts of the model: a keyword
\* occurs in a text exactly when it is one of the text's words
Occurs(kw, text) == \E i \in DOMAIN text : text[i] = kw

AnyOccurs(kws, text) == \E kw \in kws : Occurs(kw, text)

----------------------------------------------------------------------------
\* The link pattern shared by the scripts

NoMatch == [ok |-> FALSE]

\*  [^>]*>([^<]+)</a>  anchored at j
CloseAndText(s, j) ==
    LET g == RunEnd(s, j, HasGT)
    IN  IF g > Len(s) \/ s[g] # GT THEN NoMatch
        ELSE LET x == RunEnd(s, g + 1, HasLT)
             IN  IF x = g + 1 \/ x > Len(s) \/ s[x] # AClose THEN NoMatch
                 ELSE [ok |-> TRUE, text |-> Slice(s, g + 1, x - 1), end |-> x]

\* the groups of a match: the tags group joins those of the tail r
WithTags(r, tags) ==
    IF ~r.ok THEN NoMatch
    ELSE [ok |-> TRUE, tags |-> tags, text |-> r.text, end |-> r.end]

\* the url group and the start join those of the rest r
WithUrl(r, url, i) ==
    IF ~r.ok THEN NoMatch
    ELSE [ok |-> TRUE, url |-> url, tags |-> r.tags, text |-> r.text,
          start |-> i, end |-> r.end]

\*  data-tags="([^"]*)"[^>]*>([^<]+)</a>  anchored at d
AttrAndRest(s, d) ==
    IF d > Len(s) \/ s[d] # DataTags THEN NoMatch
    ELSE LET q == RunEnd(s, d + 1, HasQuote)
         IN  IF q > Len(s) \/ s[q] # Q THEN NoMatch
             ELSE WithTags(CloseAndText(s, q + 1), Slice(s, d + 1, q - 1))

\* the attribute taken by the greedy [^>]*: the last of the candidates
LastAttr(s, cands) == IF cands = {} THEN NoMatch ELSE AttrAndRest(s, Max(cands))

\*  <a href="([^"]+)"[^>]*data-tags="([^"]*)"[^>]*>([^<]+)</a>  anchored
\*  at i.  The first [^>]* is greedy: of the data-tags= it can stop
\*  before, the last one from which the rest matches is taken.
link_pattern(s, i) ==
    IF i > Len(s) \/ s[i] # AOpen THEN NoMatch
    ELSE LET u == RunEnd(s, i + 1, HasQuote)
         IN  IF u = i + 1 \/ u > Len(s) \/ s[u] # Q THEN NoMatch
             ELSE LET g == RunEnd(s, u + 1, HasGT)
                  IN  WithUrl(LastAttr(s, {d \in (u + 1)..(g - 1) : AttrAndRest(s, d).ok}),
                              Slice(s, i + 1, u - 1), i)

\* the match at the leftmost of the positions where the pattern matches
LinkAtFirst(s, starts) == IF starts = {} THEN NoMatch ELSE link_pattern(s, Min(starts))

\* re.search(link_pattern, s): the leftmost match
SearchLink(s) == LinkAtFirst(s, {i \in DOMAIN s : link_pattern(s, i).ok})

\* re.findall(link_pattern, s): the matches from position i on, left to
\* right, none overlapping
RECURSIVE FindLinks(_, _)
FindLinks(s, i) ==
    IF i > Len(s) THEN <<>>
    ELSE LET m == link_pattern(s, i)
         IN  IF m.ok THEN <<m>> \o FindLinks(s, m.end + 1)
             ELSE FindLinks(s, i + 1)

\* re.sub(r'data-tags="[^"]*"', 'data-tags="<new>"', s) from position i on
RECURSIVE SubDataTags(_, _, _)
SubDataTags(s, i, new) ==
    IF i > Len(s) THEN <<>>
    ELSE LET q == RunEnd(s, i + 1, HasQuote)
         IN  IF s[i] = DataTags /\ q <= Len(s) /\ s[q] = Q
             THEN <<DataTags>> \o new \o <<Q>> \o SubDataTags(s, q + 1, new)
             ELSE <<s[i]>> \o SubDataTags(s, i + 1, new)

\* the part of s after the last occurrence of lexeme t: s.split(t)[-1]
AfterLast(s, t) ==
    LET at == {i \in DOMAIN s : s[i] = t}
    IN  IF at = {} THEN s ELSE Slice(s, Max(at) + 1, Len(s))

\* single-word tags
Tags(S) == {<<t>> : t \in S}

----------------------------------------------------------------------------
\* comprehensive_tag_improvement.py

UsernameLimit == 30

\* The tables are keyed by text; the rows listed are those whose key
\* occurs in a text of the model (TextWords below).
flag_mappings ==
    [flag \in {FlagCO} |->
        {"colombia", "south-america", "latin-america", "andean", "spanish-speaking"}]

city_mappings ==
    [city \in {"cali"} |->
        {"cali", "valle-del-cauca", "salsa-capital", "pacific"}]

\* the keyword rules of lines 101-155: <<keywords, tags>>
cti_rules ==
    { <<{"embassy", "embajada", "ambassade"},
        {"embassy", "diplomatic", "foreign-affairs", "international-relations", "bilateral"}>>,
      <<{"consulate", "consulado", "consulat"},
        {"consulate", "diplomatic", "consular-services", "international"}>>,
      <<{"museum", "museo"},
        {"museum", "culture", "art", "heritage", "education", "tourism"}>>,
      <<{"university", "universidad"},
        {"university", "education", "academic", "higher-education", "research"}>>,
      <<{"ministry", "ministerio"},
        {"ministry", "government", "public-sector", "administration"}>>,
      <<{"alcaldia-accent", "alcaldia", "mayor"},
        {"municipality", "local-government", "city-hall", "administration"}>>,
      <<{"restaurant", "restaurante", "food", "comida"},
        {"food", "restaurant", "dining", "gastronomy", "cuisine"}>>,
      <<{"coffee", "cafe-accent", "cafe"},
        {"coffee", "cafe", "beverages", "dining"}>>,
      <<{"pizza"},
        {"pizza", "italian", "fast-food", "restaurant"}>>,
      <<{"burger", "hamburger"},
        {"burger", "fast-food", "american", "restaurant"}>>,
      <<{"teatro", "theatre", "theater"},
        {"theater", "culture", "performing-arts", "entertainment"}>>,
      <<{"biblioteca", "library"},
        {"library", "education", "culture", "books", "research"}>>,
      <<{"archivo", "archive"},
        {"archive", "history", "culture", "research", "heritage"}>>,
      <<{"turismo", "tourism", "tourist"},
        {"tourism", "travel", "visitor", "destination"}>>,
      <<{"hotel"},
        {"hotel", "accommodation", "hospitality", "tourism"}>>,
      <<{"tech", "technology", "digital"},
        {"technology", "tech", "innovation", "digital"}>>,
      <<{"ai", "artificial intelligence"},
        {"ai", "artificial-intelligence", "technology", "innovation"}>> }

\* cti_tag_list with the flag loop of lines 70-72 left out
cti_tag_list_without_flags(url, tags, text) ==
    LET tag_list   == Range(Split(tags))
        text_lower == LowerStr(text)
        username   == LowerStr(Strip(AfterLast(url, IGP), SL))
        user_tags  == IF Occurs(IGP, url) /\ username # <<>>
                         /\ StrLen(username) < UsernameLimit
                      THEN {username} ELSE {}
        city_tags  == UNION {Tags(city_mappings[c]) :
                                c \in {d \in DOMAIN city_mappings : Occurs(d, text_lower)}}
        rule_tags  == UNION {Tags(r[2]) :
                                r \in {x \in cti_rules : AnyOccurs(x[1], text_lower)}}
    IN  tag_list \cup user_tags \cup city_tags \cup rule_tags

\* the tag set the pass computes for one matched record (lines 24-155)
cti_tag_list(url, tags, text) ==
    LET tag_list   == Range(Split(tags))
        text_lower == LowerStr(text)
        username   == LowerStr(Strip(AfterLast(url, IGP), SL))
        user_tags  == IF Occurs(IGP, url) /\ username # <<>>
                         /\ StrLen(username) < UsernameLimit
                      THEN {username} ELSE {}
        flag_tags  == UNION {Tags(flag_mappings[f]) :
                                f \in {g \in DOMAIN flag_mappings : Occurs(g, text)}}
        city_tags  == UNION {Tags(city_mappings[c]) :
                                c \in {d \in DOMAIN city_mappings : Occurs(d, text_lower)}}
        rule_tags  == UNION {Tags(r[2]) :
                                r \in {x \in cti_rules : AnyOccurs(x[1], text_lower)}}
    IN  tag_list \cup user_tags \cup flag_tags \cup city_tags \cup rule_tags

\* one line of the file (lines 21-166): the new line, and whether it was
\* counted as a fix
cti_update(line, match) ==
    IF ~match.ok THEN [line |-> line, fixed |-> FALSE]
    ELSE LET original_size == Cardinality(Range(Split(match.tags)))
             tag_list == cti_tag_list(match.url, match.tags, match.text)
         IN  IF Cardinality(tag_list) > original_size
             THEN [line  |-> SubDataTags(line, 1, Join(SP, Sorted(tag_list))),
                   fixed |-> TRUE]
             ELSE [line |-> line, fixed |-> FALSE]

cti_line(line) == cti_update(line, SearchLink(line))

\* the content written back and the count returned (lines 9-172)
cti_result(content) ==
    LET lines == SplitLines(content)
        new   == [k \in DOMAIN lines |-> cti_line(lines[k])]
    IN  [content |-> Join(NL, [k \in DOMAIN lines |-> new[k].line]),
         fixes   |-> Cardinality({k \in DOMAIN lines : new[k].fixed})]

----------------------------------------------------------------------------
\* improve_tags.py

\* The flag literals of lines 243-251 are stored in the source file as the
\* UTF-8 bytes of each flag decoded as cp1252 and encoded again: eight
\* characters that are not the flag.
MojibakeMX == "MOJIBAKE_FLAG_MX"
MojibakeCO == "MOJIBAKE_FLAG_CO"
MojibakeVE == "MOJIBAKE_FLAG_VE"
MojibakeUS == "MOJIBAKE_FLAG_US"
MojibakeEU == "MOJIBAKE_FLAG_EU"

\* rows of the tables whose key occurs in a text of the model
cities ==
    [city \in {"Cali"} |->
        {"cali", "colombia", "valle-del-cauca", "south-america", "pacific"}]

country_map ==
    [country \in {"Colombia"} |->
        {"colombia", "colombian", "south-america", "latin-america", "andean"}]

extract_location_from_text(text) ==
    UNION {Tags(cities[c]) :
              c \in {d \in DOMAIN cities : Occurs(Lower(d), LowerStr(text))}}

extract_country_from_text(text) ==
    UNION {Tags(country_map[c]) :
              c \in {d \in DOMAIN country_map : Occurs(Lower(d), LowerStr(text))}}

\* the keyword rules of extract_org_type: <<keywords, tags>>
org_rules ==
    { <<{"embassy", "embajada", "embaixada", "ambassade"},
        {"embassy", "diplomatic", "foreign-affairs", "international-relations"}>>,
      <<{"consulate", "consulado", "consulat"},
        {"consulate", "diplomatic", "consular-services", "international"}>>,
      <<{"museum", "museo", "gallery", "galeria"},
        {"museum", "culture", "art", "heritage", "education"}>>,
      <<{"theater", "theatre", "teatro"},
        {"theater", "culture", "performing-arts", "entertainment"}>>,
      <<{"library", "biblioteca"},
        {"library", "education", "culture", "research", "books"}>>,
      <<{"cultural", "cultura"},
        {"culture", "cultural-center", "arts"}>>,
      <<{"ministry", "ministerio", "department", "departamento"},
        {"government", "ministry", "public-sector", "administration"}>>,
      <<{"governor", "gobernador", "alcalde", "mayor"},
        {"government", "local-government", "politics", "administration"}>>,
      <<{"tourism", "turismo"},
        {"tourism", "travel", "promotion", "destination-marketing"}>>,
      <<{"university", "universidad", "college", "school"},
        {"education", "university", "academic", "higher-education"}>>,
      <<{"institute", "instituto"},
        {"education", "institute", "research", "academic"}>>,
      <<{"restaurant", "restaurante", "cafe", "cafe-mojibake", "coffee"},
        {"food", "restaurant", "dining", "hospitality"}>>,
      <<{"food", "comida", "cocina", "kitchen"},
        {"food", "cuisine", "gastronomy"}>>,
      <<{"bakery", "panaderia", "pasteleria"},
        {"food", "bakery", "pastry", "dessert"}>>,
      <<{"brand", "marca", "company", "empresa"},
        {"business", "brand", "commercial", "corporate"}>>,
      <<{"store", "tienda", "shop"},
        {"retail", "shopping", "commerce", "business"}>>,
      <<{"news", "noticias", "media", "press"},
        {"media", "news", "journalism", "communication"}>>,
      <<{"radio", "tv", "television"},
        {"media", "broadcasting", "entertainment", "communication"}>>,
      <<{"travel", "viaje", "trip"},
        {"travel", "tourism", "destination", "adventure"}>>,
      <<{"hotel", "hostel", "accommodation"},
        {"hospitality", "accommodation", "tourism", "travel"}>> }

\* extract_org_type looking for its keywords in the text as written rather
\* than in text.lower()
extract_org_type_case_sensitive(text) ==
    UNION {Tags(r[2]) : r \in {x \in org_rules : AnyOccurs(x[1], text)}}

extract_org_type(text) ==
    UNION {Tags(r[2]) : r \in {x \in org_rules : AnyOccurs(x[1], LowerStr(text))}}

\* lines 243-252: <<what to find in the text, tags>>
content_patterns ==
    { <<{MojibakeMX, "Mexico"},    {"mexico", "mexican", "mx"}>>,
      <<{MojibakeCO, "Colombia"},  {"colombia", "colombian", "co"}>>,
      <<{MojibakeVE, "Venezuela"}, {"venezuela", "venezuelan", "ve"}>>,
      <<{MojibakeUS, "USA", "US"}, {"usa", "united-states", "american"}>>,
      <<{MojibakeEU, "EU"},        {"eu", "european-union", "europe"}>> }

\* lines 255-262
language_patterns ==
    { <<{"Mexico", "Colombia", "Venezuela", "Spain", "Argentina", "Chile", "Peru"},
        {"spanish-speaking"}>>,
      <<{"Brazil"}, {"portuguese-speaking"}>>,
      <<{"USA", "UK", "Canada", "Australia"}, {"english-speaking"}>>,
      <<{"France", "French"}, {"french-speaking"}>> }

\* <a href="([^"]+)" target="_blank"(?:\s+data-tags="([^"]*)")?>([^<]+)</a>
\* matched at the start of link_html (line 215)
\*  >([^<]+)</a>  anchored at g
TextAt(s, g) ==
    LET x == RunEnd(s, g + 1, HasLT)
    IN  IF g > Len(s) \/ s[g] # GT \/ x = g + 1 \/ x > Len(s) \/ s[x] # AClose
        THEN NoMatch
        ELSE [ok |-> TRUE, text |-> Slice(s, g + 1, x - 1), end |-> x]

improve_match(s) ==
    IF s = <<>> \/ s[1] # AOpen THEN NoMatch
    ELSE LET u == RunEnd(s, 2, HasQuote)
         IN  IF u = 2 \/ u + 1 > Len(s) \/ s[u] # Q \/ s[u + 1] # Target THEN NoMatch
             ELSE LET w == RunEnd(s, u + 2, {t \in Range(s) : t \notin Space})
                      q == RunEnd(s, w + 1, HasQuote)
                      grouped == /\ w > u + 2
                                 /\ w <= Len(s) /\ s[w] = DataTags
                                 /\ q <= Len(s) /\ s[q] = Q
                  IN  IF grouped
                      THEN WithUrl(WithTags(TextAt(s, q + 1), Slice(s, w + 1, q - 1)),
                                   Slice(s, 2, u - 1), 1)
                      ELSE WithUrl(WithTags(TextAt(s, u + 2), <<>>),
                                   Slice(s, 2, u - 1), 1)

\* the list  sorted([tag.lower().replace(' ', '-') for tag in all_tags if tag])
\* of line 265: one entry for every member of the set, equal entries kept
CleanTag(tag) == ReplaceTok(LowerStr(tag), SP, HY)

RECURSIVE Repeat(_, _)
Repeat(x, n) == IF n = 0 THEN <<>> ELSE <<x>> \o Repeat(x, n - 1)

RECURSIVE Flatten(_)
Flatten(ll) == IF ll = <<>> THEN <<>> ELSE Head(ll) \o Flatten(Tail(ll))

sort_and_clean(all_tags) ==
    LET kept    == {t \in all_tags : t # <<>>}
        cleaned == Sorted({CleanTag(t) : t \in kept})
    IN  Flatten([k \in DOMAIN cleaned |->
            Repeat(cleaned[k], Cardinality({t \in kept : CleanTag(t) = cleaned[k]}))])

\* lines 217-268, for the match of line 215
improve_matched(link_html, match) ==
    IF ~match.ok THEN link_html
    ELSE LET url      == match.url
             text     == match.text
             username == RemoveTok(RemoveTok(url, IGP), SL)
             all_tags ==
                 Range(Split(match.tags))
                   \cup {LowerStr(username)}
                   \cup extract_location_from_text(text)
                   \cup extract_country_from_text(text)
                   \cup extract_org_type(text)
                   \cup UNION {Tags(r[2]) :
                           r \in {x \in content_patterns : AnyOccurs(x[1], text)}}
                   \cup UNION {Tags(r[2]) :
                           r \in {x \in language_patterns : AnyOccurs(x[1], text)}}
         IN  <<AOpen>> \o url \o <<Q, Target, SP, DataTags>>
               \o Join(SP, sort_and_clean(all_tags))
               \o <<Q, GT>> \o text \o <<AClose>>

improve_link_tags(link_html) == improve_matched(link_html, improve_match(link_html))

\* <a href="[^"]+" target="_blank"[^>]*>[^<]+</a>  anchored at i: the
\* position of the match's last lexeme, or 0 (lines 281 and 293)
anchor_pattern(s, i) ==
    IF i > Len(s) \/ s[i] # AOpen THEN 0
    ELSE LET u == RunEnd(s, i + 1, HasQuote)
         IN  IF u = i + 1 \/ u + 1 > Len(s) \/ s[u] # Q \/ s[u + 1] # Target THEN 0
             ELSE LET r == CloseAndText(s, u + 2)
                  IN  IF r.ok THEN r.end ELSE 0

\* re.sub(anchor pattern, replace_link, s) from position i on (lines 276-284)
RECURSIVE improve_all(_, _)
improve_all(s, i) ==
    IF i > Len(s) THEN <<>>
    ELSE LET e == anchor_pattern(s, i)
         IN  IF e # 0 THEN improve_link_tags(Slice(s, i, e)) \o improve_all(s, e + 1)
             ELSE <<s[i]>> \o improve_all(s, i + 1)

\* len(re.findall(anchor pattern, s)) from position i on (line 293)
RECURSIVE count_anchors(_, _)
count_anchors(s, i) ==
    IF i > Len(s) THEN 0
    ELSE LET e == anchor_pattern(s, i)
         IN  IF e # 0 THEN 1 + count_anchors(s, e + 1) ELSE count_anchors(s, i + 1)

\* the content written back, and the exception the statistics of line 299
\* raise after the write when no link is left to count
written(improved_content) ==
    [content |-> improved_content,
     exc |-> IF count_anchors(improved_content, 1) = 0
             THEN "ZeroDivisionError" ELSE "none"]

process_file_result(content) == written(improve_all(content, 1))

----------------------------------------------------------------------------
\* fix_tag_issues.py

\* re.sub(r'data-tags="([^"]*)"', fix_underscores, s) from position i on
\* (lines 19-29): the content
RECURSIVE fix_underscores(_, _)
fix_underscores(s, i) ==
    IF i > Len(s) THEN <<>>
    ELSE IF s[i] # DataTags
    THEN Slice(s, i, RunEnd(s, i, {DataTags}) - 1)
           \o fix_underscores(s, RunEnd(s, i, {DataTags}))
    ELSE LET q == RunEnd(s, i + 1, HasQuote)
         IN  IF q <= Len(s) /\ s[q] = Q
             THEN <<DataTags>> \o ReplaceTok(Slice(s, i + 1, q - 1), UND, HY) \o <<Q>>
                    \o fix_underscores(s, q + 1)
             ELSE <<s[i]>> \o fix_underscores(s, i + 1)

\* the number of matches it counted: those with an underscore in the tags
RECURSIVE fix_underscores_count(_, _)
fix_underscores_count(s, i) ==
    IF i > Len(s) THEN 0
    ELSE IF s[i] # DataTags THEN fix_underscores_count(s, RunEnd(s, i, {DataTags}))
    ELSE LET q == RunEnd(s, i + 1, HasQuote)
         IN  IF q <= Len(s) /\ s[q] = Q
             THEN (IF Occurs(UND, Slice(s, i + 1, q - 1)) THEN 1 ELSE 0)
                    + fix_underscores_count(s, q + 1)
             ELSE fix_underscores_count(s, i + 1)

\* of two alternatives, the one the regex engine tries first if it matches
FirstOf(a, b) == IF a.ok THEN a ELSE b

\* <a href="([^"]+)"[^>]*(?:data-tags="([^"]*)")?[^>]*>([^<]+)</a>  anchored
\* at i (line 87).  The first [^>]* is greedy and the group optional: the
\* match tried first takes the whole run up to the > and leaves the group
\* out; only when that fails is a shorter run followed by the group tried,
\* longest run first.
types_pattern(s, i) ==
    IF i > Len(s) \/ s[i] # AOpen THEN NoMatch
    ELSE LET u == RunEnd(s, i + 1, HasQuote)
         IN  IF u = i + 1 \/ u > Len(s) \/ s[u] # Q THEN NoMatch
             ELSE LET g == RunEnd(s, u + 1, HasGT)
                  IN  WithUrl(
                        FirstOf(WithTags(CloseAndText(s, u + 1), <<>>),
                                LastAttr(s, {d \in (u + 1)..(g - 1) : AttrAndRest(s, d).ok})),
                        Slice(s, i + 1, u - 1), i)

type_tags ==
    Tags({"embassy", "consulate", "museum", "restaurant", "government",
          "cultural", "education", "travel", "food", "media"})

\* the elif chain of lines 49-68: the tag of the first branch whose keyword
\* is in the lower-cased text
inferred_type(text_lower) ==
    LET chain == << <<{"embassy", "embajada"}, "embassy">>,
                    <<{"consulate", "consulado"}, "consulate">>,
                    <<{"museum", "museo"}, "museum">>,
                    <<{"theater", "teatro"}, "theater">>,
                    <<{"restaurant", "food", "cocina"}, "food">>,
                    <<{"cultural", "cultura"}, "cultural">>,
                    <<{"university", "universidad"}, "education">>,
                    <<{"travel", "tourism"}, "travel">>,
                    <<{"news", "media"}, "media">>,
                    <<{"ministry", "ministerio"}, "government">> >>
        hits  == {k \in DOMAIN chain : AnyOccurs(chain[k][1], text_lower)}
    IN  IF hits = {} THEN <<>> ELSE << <<chain[Min(hits)][2]>> >>

\* list.append(tag) guarded by  tag not in list  (lines 72-77)
AppendNew(l, tag) == IF tag \in Range(l) THEN l ELSE Append(l, tag)

\* the list of tags add_missing_types ends with (lines 40-77)
types_tag_list(tags, text) ==
    LET tag_list == Split(tags)
        has_type == Range(tag_list) \cap type_tags # {}
        typed    == tag_list \o inferred_type(LowerStr(text))
    IN  IF has_type THEN tag_list
        ELSE IF Range(typed) \cap Tags({"embassy", "consulate"}) # {}
        THEN AppendNew(AppendNew(AppendNew(typed, <<"diplomatic">>),
                                 <<"foreign-affairs">>),
                       <<"international-relations">>)
        ELSE typed

\* add_missing_types on one match (lines 33-84): the replacement, and
\* whether it was counted as a fix
add_missing_types(full_match, m) ==
    LET tag_list == types_tag_list(m.tags, m.text)
    IN  IF Len(tag_list) > Len(Split(m.tags))
        THEN [out |-> <<AOpen>> \o m.url \o <<Q, Target, SP, DataTags>>
                        \o Join(SP, Sorted(Range(tag_list)))
                        \o <<Q, GT>> \o m.text \o <<AClose>>,
              fixed |-> TRUE]
        ELSE [out |-> full_match, fixed |-> FALSE]

\* re.sub: the replacement r of one match goes before the rest of the
\* output, and fixes_made counts it if the callback counted it
Replaced(r, rest) ==
    [out |-> r.out \o rest.out, n |-> (IF r.fixed THEN 1 ELSE 0) + rest.n]

\* a lexeme outside every match is copied
Kept(t) == [out |-> <<t>>, fixed |-> FALSE]

\* a copy that turns the letters of the run into small letters
KeptRunLowered(s, i, n) == [out |-> LowerStr(Slice(s, i, n - 1)), fixed |-> FALSE]

\* so is a run of lexemes at none of which a match can start
KeptRun(s, i, n) == [out |-> Slice(s, i, n - 1), fixed |-> FALSE]

\* re.sub(types pattern, add_missing_types, s) from position i on (line 87)
RECURSIVE add_types_all(_, _)
add_types_from(s, i, m) ==
    IF m.ok
    THEN Replaced(add_missing_types(Slice(s, i, m.end), m), add_types_all(s, m.end + 1))
    ELSE Replaced(Kept(s[i]), add_types_all(s, i + 1))

add_types_all(s, i) ==
    IF i > Len(s) THEN [out |-> <<>>, n |-> 0]
    ELSE IF s[i] # AOpen
    THEN Replaced(KeptRun(s, i, RunEnd(s, i, {AOpen})),
                  add_types_all(s, RunEnd(s, i, {AOpen})))
    ELSE add_types_from(s, i, types_pattern(s, i))

\* <a href="([^"]+)" target="_blank">([^<]+)</a>  anchored at i (line 118)
untagged_pattern(s, i) ==
    IF i > Len(s) \/ s[i] # AOpen THEN NoMatch
    ELSE LET u == RunEnd(s, i + 1, HasQuote)
             x == RunEnd(s, u + 3, HasLT)
         IN  IF u = i + 1 \/ u + 2 > Len(s) \/ s[u] # Q \/ s[u + 1] # Target
                \/ s[u + 2] # GT \/ x = u + 3 \/ x > Len(s) \/ s[x] # AClose
             THEN NoMatch
             ELSE [ok |-> TRUE, url |-> Slice(s, i + 1, u - 1),
                   text |-> Slice(s, u + 3, x - 1), end |-> x]

\* add_tags_to_untagged on one match (lines 91-115)
add_tags_to_untagged(full_match, m) ==
    IF Occurs(DataTags, full_match) THEN [out |-> full_match, fixed |-> FALSE]
    ELSE LET username == LowerStr(RemoveTok(RemoveTok(m.url, IGP), SL))
             tags == <<username>> \o
                     (IF Occurs("Embassy", m.text) \/ Occurs("Embajada", m.text)
                      THEN << <<"embassy">>, <<"diplomatic">>, <<"foreign-affairs">> >>
                      ELSE IF Occurs("Consulate", m.text) \/ Occurs("Consulado", m.text)
                      THEN << <<"consulate">>, <<"diplomatic">>, <<"consular-services">> >>
                      ELSE <<>>)
         IN  [out |-> <<AOpen>> \o m.url \o <<Q, Target, SP, DataTags>>
                        \o Join(SP, tags) \o <<Q, GT>> \o m.text \o <<AClose>>,
              fixed |-> TRUE]

\* re.sub(untagged pattern, add_tags_to_untagged, s) from position i on
RECURSIVE add_untagged_all(_, _)
add_untagged_from(s, i, m) ==
    IF m.ok
    THEN Replaced(add_tags_to_untagged(Slice(s, i, m.end), m), add_untagged_all(s, m.end + 1))
    ELSE Replaced(Kept(s[i]), add_untagged_all(s, i + 1))

add_untagged_all(s, i) ==
    IF i > Len(s) THEN [out |-> <<>>, n |-> 0]
    ELSE IF s[i] # AOpen
    THEN Replaced(KeptRun(s, i, RunEnd(s, i, {AOpen})),
                  add_untagged_all(s, RunEnd(s, i, {AOpen})))
    ELSE add_untagged_from(s, i, untagged_pattern(s, i))

\* the content written back and the count returned (lines 11-125)
third_pass(made, pass2) ==
    [content |-> add_untagged_all(pass2.out, 1).out,
     fixes   |-> made + pass2.n + add_untagged_all(pass2.out, 1).n]

fix_tag_issues_result(content) ==
    third_pass(fix_underscores_count(content, 1),
               add_types_all(fix_underscores(content, 1), 1))

----------------------------------------------------------------------------
\* sort_links.py

\* the characters of [\U0001F1E0-\U0001F1FF\U0001F300-\U0001F9FF] (line 23)
Emoji == {FlagCO}

\* str.strip()
strip(s) ==
    LET inner == {i \in DOMAIN s : s[i] \notin Space}
    IN  IF inner = {} THEN <<>> ELSE Slice(s, Min(inner), Max(inner))

\* the candidates of  >([^<]+)<  in a link (line 19): the positions of a >
\* that a non-empty run without < follows, ended by a <
text_starts(link) ==
    {p \in DOMAIN link :
        /\ link[p] \in HasGT
        /\ RunEnd(link, p + 1, HasLT) > p + 1
        /\ RunEnd(link, p + 1, HasLT) <= Len(link)}

\* lines 21-25 for the leftmost candidate p
clean_key(link, p) ==
    LowerStr(strip(SelectSeq(Slice(link, p + 1, RunEnd(link, p + 1, HasLT) - 1),
                             LAMBDA t : t \notin Emoji)))

key_at_first(link, starts) ==
    IF starts = {} THEN <<>> ELSE clean_key(link, Min(starts))

get_sort_key(link) == key_at_first(link, text_starts(link))

\*  (\s*<a href="[^"]*"[^>]*>.*?</a>)  anchored at i (line 13): the
\* position of the match's last lexeme, or 0
grid_link_end(g, i, w) ==
    IF w > Len(g) \/ g[w] # AOpen THEN 0
    ELSE LET u == RunEnd(g, w + 1, HasQuote)
             t == RunEnd(g, u + 1, HasGT)
             e == RunEnd(g, t + 1, {AClose})
         IN  IF u > Len(g) \/ g[u] # Q \/ t > Len(g) \/ e > Len(g) THEN 0 ELSE e

grid_link(g, i) == grid_link_end(g, i, RunEnd(g, i, Range(g) \ Space))

\* re.findall(link_pattern, grid_content, re.DOTALL) from position i on
RECURSIVE grid_links(_, _)
grid_links_from(g, i, e) ==
    IF e # 0 THEN <<Slice(g, i, e)>> \o grid_links(g, e + 1)
    ELSE grid_links(g, i + 1)

grid_links(g, i) ==
    IF i > Len(g) THEN <<>> ELSE grid_links_from(g, i, grid_link(g, i))

\* sorted(links, key=...): link i goes after the links of smaller key and
\* after the links of equal key that stood before it
sorted_by(links, keys) ==
    LET place == [i \in DOMAIN links |->
                     1 + Cardinality({j \in DOMAIN links :
                            \/ StrLess(keys[j], keys[i])
                            \/ keys[j] = keys[i] /\ j < i})]
    IN  [n \in DOMAIN links |-> links[CHOOSE i \in DOMAIN links : place[i] = n]]

sorted_links(links) ==
    sorted_by(links, [i \in DOMAIN links |-> get_sort_key(links[i])])

\* sort_links on the content of one grid (lines 10-30), the enclosing
\* <div class="link-grid"> and </div> included
sort_links(grid_content) ==
    <<DivOpen>> \o Join(NL, sorted_links(grid_links(grid_content, 1)))
                \o <<NL, DivClose>>

\* re.sub(grid_pattern, sort_links, content, flags=re.DOTALL) from position
\* i on (lines 8 and 33): a grid runs to the first </div> after it (.*?)
RECURSIVE sort_link_section_from(_, _)
sort_grid_at(s, i, c) ==
    IF s[i] = DivOpen /\ c <= Len(s)
    THEN sort_links(Slice(s, i + 1, c - 1)) \o sort_link_section_from(s, c + 1)
    ELSE <<s[i]>> \o sort_link_section_from(s, i + 1)

\* the same with a greedy grid_pattern, (.*) for (.*?): a grid runs to the
\* last </div> of the content
sort_link_section_greedy(s, i) ==
    IF i > Len(s) THEN <<>>
    ELSE sort_grid_at(s, i, IF \E j \in (i + 1)..Len(s) : s[j] = DivClose
                            THEN Max({j \in (i + 1)..Len(s) : s[j] = DivClose})
                            ELSE Len(s) + 1)

sort_link_section_from(s, i) ==
    IF i > Len(s) THEN <<>> ELSE sort_grid_at(s, i, RunEnd(s, i + 1, {DivClose}))

sort_link_section(content) == sort_link_section_from(content, 1)

----------------------------------------------------------------------------
\* city_tag_audit.py

\* The rows of city_mapping (lines 20-79) whose city occurs in a text of
\* the model, in the order of the table
city_mapping ==
    << [city |-> "Cali",
        tags |-> << <<"cali">>, <<"colombia">>, <<"valle-del-cauca">>, <<"salsa-capital">> >>] >>

\* the tags of tag_tuple, in order, that are not in tag_list (lines 89-91)
missing_of(tag_tuple, tag_list) ==
    SelectSeq(tag_tuple, LAMBDA tag : tag \notin Range(tag_list))

\* lines 84-91 for one link: the tags appended to fixes_needed[(text, url)]
RECURSIVE city_missing(_, _, _)
city_missing(k, tag_list, text) ==
    IF k > Len(city_mapping) THEN <<>>
    ELSE (IF Occurs(city_mapping[k].city, text)
          THEN missing_of(city_mapping[k].tags, tag_list) ELSE <<>>)
         \o city_missing(k + 1, tag_list, text)

\* fixes_needed[(text, url)] += tags  on a defaultdict(list): a dict keeps
\* its keys in the order they were first set
add_fixes(fixes_needed, text, url, tags) ==
    IF tags = <<>> THEN fixes_needed
    ELSE IF \E n \in DOMAIN fixes_needed :
                fixes_needed[n].text = text /\ fixes_needed[n].url = url
    THEN [n \in DOMAIN fixes_needed |->
            IF fixes_needed[n].text = text /\ fixes_needed[n].url = url
            THEN [fixes_needed[n] EXCEPT !.tags = @ \o tags]
            ELSE fixes_needed[n]]
    ELSE Append(fixes_needed, [text |-> text, url |-> url, tags |-> tags])

\* the loop of lines 83-91 over the links from the n-th on
RECURSIVE city_fixes(_, _, _)
city_fixes(links, n, fixes_needed) ==
    IF n > Len(links) THEN fixes_needed
    ELSE city_fixes(links, n + 1,
             add_fixes(fixes_needed, links[n].text, links[n].url,
                       city_missing(1, Split(links[n].tags), links[n].text)))

audit_city_tags(content) == city_fixes(FindLinks(content, 1), 1, <<>>)

\* <a href="URL"[^>]*data-tags="([^"]*)"[^>]*>TEXT</a>  anchored at i, for
\* the escaped url and text of a fix (lines 104 and 86 of verify_tags.py)
literal_tail(s, r, text) ==
    IF r.ok /\ r.text = text THEN r ELSE NoMatch

literal_attr(s, d, text) == literal_tail(s, AttrAndRest(s, d), text)

last_literal_attr(s, cands, text) ==
    IF cands = {} THEN NoMatch ELSE literal_attr(s, Max(cands), text)

literal_pattern(s, i, url, text) ==
    IF i + Len(url) + 1 > Len(s) \/ s[i] # AOpen
       \/ Slice(s, i + 1, i + Len(url)) # url \/ s[i + Len(url) + 1] # Q
    THEN NoMatch
    ELSE LET u == i + Len(url) + 1
             g == RunEnd(s, u + 1, HasGT)
         IN  WithUrl(last_literal_attr(s, {d \in (u + 1)..(g - 1) : literal_attr(s, d, text).ok},
                                       text),
                     url, i)

literal_at_first(s, starts, url, text) ==
    IF starts = {} THEN NoMatch ELSE literal_pattern(s, Min(starts), url, text)

\* re.search(pattern, content): the leftmost match
search_literal(s, url, text) ==
    literal_at_first(s, {i \in DOMAIN s : literal_pattern(s, i, url, text).ok}, url, text)

\* str.replace(old, new): every occurrence of old, left to right
RECURSIVE replace(_, _, _)
replace(s, old, new) ==
    IF s = <<>> THEN <<>>
    ELSE IF Len(old) <= Len(s) /\ SubSeq(s, 1, Len(old)) = old
    THEN new \o replace(SubSeq(s, Len(old) + 1, Len(s)), old, new)
    ELSE <<Head(s)>> \o replace(Tail(s), old, new)

\* lines 107-115 with the audited tags in place of the union
city_update_replacing(content, match, tags_to_add) ==
    IF ~match.ok THEN content
    ELSE replace(content, Slice(content, match.start, match.end),
                 SubDataTags(Slice(content, match.start, match.end), 1,
                     Join(SP, Sorted(Range(tags_to_add)))))

\* lines 107-115 for one fix and its match
city_update(content, match, tags_to_add) ==
    IF ~match.ok THEN content
    ELSE replace(content, Slice(content, match.start, match.end),
                 SubDataTags(Slice(content, match.start, match.end), 1,
                     Join(SP, Sorted(Range(Split(match.tags)) \cup Range(tags_to_add)))))

\* the loop of lines 102-118 over the fixes from the n-th on
RECURSIVE apply_city_fixes(_, _, _)
apply_city_fixes(content, needed, n) ==
    IF n > Len(needed) THEN content
    ELSE apply_city_fixes(
             city_update(content, search_literal(content, needed[n].url, needed[n].text),
                         needed[n].tags),
             needed, n + 1)

\* the content apply_city_tags writes back (lines 95-124)
apply_city_tags(content, needed) == apply_city_fixes(content, needed, 1)

----------------------------------------------------------------------------
\* verify_tags.py

\* the keyword rules of lines 27-44 and 51-54: <<keywords, tags>>, in order
verify_rules ==
    << <<{"embassy", "embajada", "ambassade"}, << <<"embassy">>, <<"diplomatic">> >> >>,
       <<{"consulate", "consulado", "consulat"},
         << <<"consulate">>, <<"consular-services">> >> >>,
       <<{"museum", "museo"}, << <<"museum">>, <<"culture">> >> >> >>

government_words == {"ministry", "ministerio", "government", "gobierno"}

\* lines 57-66, for the flags of the model
verify_flags == << <<FlagCO, <<"colombia">> >> >>

\* lines 69-71
verify_username(url) == LowerStr(RemoveTok(RemoveTok(url, IGP), SL))

\* the tags of the first n rules that a text asks for and a list lacks
RECURSIVE rule_tags_missing(_, _, _)
rule_tags_missing(n, text_lower, tag_list) ==
    IF n = 0 THEN <<>>
    ELSE rule_tags_missing(n - 1, text_lower, tag_list)
           \o (IF AnyOccurs(verify_rules[n][1], text_lower)
               THEN missing_of(verify_rules[n][2], tag_list) ELSE <<>>)

RECURSIVE flag_tags_missing(_, _, _)
flag_tags_missing(n, text, tag_list) ==
    IF n = 0 THEN <<>>
    ELSE flag_tags_missing(n - 1, text, tag_list)
           \o (IF Occurs(verify_flags[n][1], text)
               THEN missing_of(<<verify_flags[n][2]>>, tag_list) ELSE <<>>)

\* the tags verify_tags asks to add to one link, in order (lines 22-71)
verify_missing(url, tag_list, text, text_lower) ==
    rule_tags_missing(Len(verify_rules), text_lower, tag_list)
      \o (IF AnyOccurs({"cultural", "cultura"}, text_lower)
             /\ <<"cultural">> \notin Range(tag_list) /\ <<"culture">> \notin Range(tag_list)
          THEN << <<"cultural">> >> ELSE <<>>)
      \o (IF AnyOccurs(government_words, text_lower)
          THEN missing_of(<< <<"government">> >>, tag_list) ELSE <<>>)
      \o flag_tags_missing(Len(verify_flags), text, tag_list)
      \o (IF verify_username(url) \notin Range(tag_list)
             /\ StrLen(verify_username(url)) < UsernameLimit
          THEN <<verify_username(url)>> ELSE <<>>)

\* the corrections of one link: one for each tag to add
corrections_of(m, tags) == [k \in DOMAIN tags |-> [url |-> m.url, text |-> m.text, tag |-> tags[k]]]

\* the loop of lines 22-73 over the links from the n-th on
RECURSIVE verify_links(_, _)
verify_links(links, n) ==
    IF n > Len(links) THEN <<>>
    ELSE corrections_of(links[n],
                        verify_missing(links[n].url, Split(links[n].tags), links[n].text,
                                       LowerStr(links[n].text)))
           \o verify_links(links, n + 1)

\* verify_tags (lines 9-75): corrections_needed
verify_tags(content) == verify_links(FindLinks(content, 1), 1)

\* lines 93-100 for a match whose tag list lacks the tag
corrected(content, old_link, existing_tags, new_tags) ==
    replace(content, old_link,
            replace(old_link, <<DataTags>> \o existing_tags \o <<Q>>,
                    <<DataTags>> \o new_tags \o <<Q>>))

\* lines 88-101 for one correction and its match
apply_correction(content, match, tag) ==
    IF ~match.ok \/ tag \in Range(Split(match.tags)) THEN content
    ELSE corrected(content, Slice(content, match.start, match.end), match.tags,
                   Join(SP, Sorted(Range(Split(match.tags)) \cup {tag})))

\* the loop of lines 84-101 over the corrections from the n-th on
RECURSIVE apply_corrections_from(_, _, _)
apply_corrections_from(content, corrections, n) ==
    IF n > Len(corrections) THEN content
    ELSE apply_corrections_from(
             apply_correction(content,
                              search_literal(content, corrections[n].url, corrections[n].text),
                              corrections[n].tag),
             corrections, n + 1)

\* the content apply_corrections writes back (lines 77-107)
apply_corrections(content, corrections) == apply_corrections_from(content, corrections, 1)

----------------------------------------------------------------------------
\* deep_tag_audit.py

Issue(type, text, tag) == [type |-> type, text |-> text, tag |-> tag]

\* the issues of lines 32-37 for a text with the flag of Colombia, then those
\* of lines 73-77 for an embassy, then those of lines 120-123 for a tag of a
\* Spanish-speaking country; the other rules are keyed by flags and words
\* that no text of the model holds
flag_issues(tag_list, text) ==
    IF ~Occurs(FlagCO, text) THEN <<>>
    ELSE (IF <<"colombia">> \in Range(tag_list) THEN <<>>
          ELSE <<Issue("missing_country", text, <<"colombia">>)>>)
         \o [k \in DOMAIN missing_of(<< <<"south-america">>, <<"latin-america">> >>, tag_list) |->
               Issue("missing_region", text,
                     missing_of(<< <<"south-america">>, <<"latin-america">> >>, tag_list)[k])]

embassy_required ==
    << <<"embassy">>, <<"diplomatic">>, <<"foreign-affairs">>, <<"international-relations">> >>

embassy_issues(tag_list, text, text_lower) ==
    IF ~AnyOccurs({"embassy", "embajada"}, text_lower) THEN <<>>
    ELSE [k \in DOMAIN missing_of(embassy_required, tag_list) |->
            Issue("missing_diplomatic", text, missing_of(embassy_required, tag_list)[k])]

spanish_countries ==
    Tags({"mexico", "colombia", "venezuela", "spain", "argentina", "chile", "peru"})

language_issues(tag_list, text) ==
    IF Range(tag_list) \cap spanish_countries # {} /\ <<"spanish-speaking">> \notin Range(tag_list)
    THEN <<Issue("missing_language", text, <<"spanish-speaking">>)>>
    ELSE <<>>

\* the loop of lines 22-130 over the links from the n-th on: the issues in
\* the order they are appended
RECURSIVE deep_links(_, _)
deep_links(links, n) ==
    IF n > Len(links) THEN <<>>
    ELSE flag_issues(Split(links[n].tags), links[n].text)
           \o embassy_issues(Split(links[n].tags), links[n].text, LowerStr(links[n].text))
           \o language_issues(Split(links[n].tags), links[n].text)
           \o deep_links(links, n + 1)

\* deep_tag_audit (lines 9-132): the issues
deep_tag_audit(content) == deep_links(FindLinks(content, 1), 1)

\* the keys of a dict in the order they were first set
Keys(l) ==
    LET first == {i \in DOMAIN l : \A j \in 1..(i - 1) : l[j] # l[i]}
    IN  [k \in 1..Cardinality(first) |->
            l[CHOOSE i \in first : Cardinality({j \in first : j <= i}) = k]]

\* issues.items(): the issues by type, the types in the order of their
\* first issue
by_type(issues, types) ==
    Flatten([t \in DOMAIN types |-> SelectSeq(issues, LAMBDA i : i.type = types[t])])

\* lines 142-146: link_fixes, a set of tags for each text
grouped_fixes(items, texts) ==
    [n \in DOMAIN texts |->
        [text |-> texts[n],
         tags |-> {items[k].tag : k \in {j \in DOMAIN items : items[j].text = texts[n]}}]]

fixes_by_text(items) == grouped_fixes(items, Keys([k \in DOMAIN items |-> items[k].text]))

link_fixes(issues) ==
    fixes_by_text(by_type(issues, Keys([k \in DOMAIN issues |-> issues[k].type])))

\* the characters of a lexeme, one element for each character of the str
\* (the flag is two regional indicators); every other lexeme is one character
Spelling(t) ==
    CASE t = AOpen    -> <<LT, "a", SP, "h", "r", "e", "f", "=", Q>>
      [] t = AClose   -> <<LT, SL, "a", GT>>
      [] t = Target   -> <<SP, "t", "a", "r", "g", "e", "t", "=", Q, UND, "b", "l", "a", "n",
            "k", Q>>
      [] t = DataTags -> <<"d", "a", "t", "a", HY, "t", "a", "g", "s", "=", Q>>
      [] t = IGP      -> <<"h", "t", "t", "p", "s", ":", SL, SL, "i", "n", "s", "t", "a", "g",
            "r", "a", "m", ".", "c", "o", "m", SL>>
      [] t = DivOpen  -> <<LT, "d", "i", "v", SP, "c", "l", "a", "s", "s", "=", Q, "l", "i",
            "n", "k", HY, "g", "r", "i", "d", Q, GT>>
      [] t = DivClose -> <<LT, SL, "d", "i", "v", GT>>
      [] t = FlagCO   -> <<"RI_C", "RI_O">>
      [] t = "Foo" -> <<"F", "o", "o">>
      [] t = "foo" -> <<"f", "o", "o">>
      [] t = "Bob" -> <<"B", "o", "b">>
      [] t = "bob" -> <<"b", "o", "b">>
      [] t = "Dan" -> <<"D", "a", "n">>
      [] t = "dan" -> <<"d", "a", "n">>
      [] t = "Embassy" -> <<"E", "m", "b", "a", "s", "s", "y">>
      [] t = "EMBASSY" -> <<"E", "M", "B", "A", "S", "S", "Y">>
      [] t = "embassy" -> <<"e", "m", "b", "a", "s", "s", "y">>
      [] t = "Colombia" -> <<"C", "o", "l", "o", "m", "b", "i", "a">>
      [] t = "colombia" -> <<"c", "o", "l", "o", "m", "b", "i", "a">>
      [] t = "Cali" -> <<"C", "a", "l", "i">>
      [] t = "cali" -> <<"c", "a", "l", "i">>
      [] t = "andean" -> <<"a", "n", "d", "e", "a", "n">>
      [] t = "bilateral" -> <<"b", "i", "l", "a", "t", "e", "r", "a", "l">>
      [] t = "bongo" -> <<"b", "o", "n", "g", "o">>
      [] t = "co" -> <<"c", "o">>
      [] t = "colombian" -> <<"c", "o", "l", "o", "m", "b", "i", "a", "n">>
      [] t = "diplomatic" -> <<"d", "i", "p", "l", "o", "m", "a", "t", "i", "c">>
      [] t = "foreign-affairs" -> <<"f", "o", "r", "e", "i", "g", "n", HY, "a", "f", "f", "a",
            "i", "r", "s">>
      [] t = "government" -> <<"g", "o", "v", "e", "r", "n", "m", "e", "n", "t">>
      [] t = "international-relations" -> <<"i", "n", "t", "e", "r", "n", "a", "t", "i", "o",
            "n", "a", "l", HY, "r", "e", "l", "a", "t", "i", "o", "n", "s">>
      [] t = "latin-america" -> <<"l", "a", "t", "i", "n", HY, "a", "m", "e", "r", "i", "c",
            "a">>
      [] t = "museum" -> <<"m", "u", "s", "e", "u", "m">>
      [] t = "pacific" -> <<"p", "a", "c", "i", "f", "i", "c">>
      [] t = "salsa-capital" -> <<"s", "a", "l", "s", "a", HY, "c", "a", "p", "i", "t", "a",
            "l">>
      [] t = "seafood" -> <<"s", "e", "a", "f", "o", "o", "d">>
      [] t = "south-america" -> <<"s", "o", "u", "t", "h", HY, "a", "m", "e", "r", "i", "c",
            "a">>
      [] t = "spanish-speaking" -> <<"s", "p", "a", "n", "i", "s", "h", HY, "s", "p", "e", "a",
            "k", "i", "n", "g">>
      [] t = "valle-del-cauca" -> <<"v", "a", "l", "l", "e", HY, "d", "e", "l", HY, "c", "a",
            "u", "c", "a">>
      [] OTHER -> <<t>>

\* len(str) of a text
RECURSIVE TextWidth(_)
TextWidth(s) == IF s = <<>> THEN 0 ELSE Len(Spelling(Head(s))) + TextWidth(Tail(s))

\* the index in the str of the first character of lexeme i (from 0)
Offset(s, i) == TextWidth(Slice(s, 1, i - 1))

\* the lexeme that holds the character at index off; Len(s) + 1 past the end
lexeme_at(s, off) == Min({k \in 1..(Len(s) + 1) : k = Len(s) + 1 \/ Offset(s, k + 1) > off})

\* lines 151-152: the places of  >TEXT</a>  in the content, each given by the
\* position of the lexeme that ends with its >
text_matches(s, text) ==
    {g \in DOMAIN s : /\ s[g] \in HasGT
                      /\ g + Len(text) + 1 <= Len(s)
                      /\ Slice(s, g + 1, g + Len(text)) = text
                      /\ s[g + Len(text) + 1] = AClose}

\* match.start() and match.end() of the match at g
match_span(s, g, text) ==
    [start |-> Offset(s, g + 1) - 1, end |-> Offset(s, g + Len(text) + 2)]

\* line 152: list(re.finditer(pattern, content)), left to right
matches(s, text, at) ==
    [n \in 1..Cardinality(at) |->
        match_span(s, CHOOSE g \in at : Cardinality({h \in at : h <= g}) = n, text)]

\* line 161: the value of the first data-tags attribute of a link
first_tags(full_link, at) ==
    IF at = {} THEN [ok |-> FALSE]
    ELSE [ok |-> TRUE,
          tags |-> Slice(full_link, Min(at) + 1, RunEnd(full_link, Min(at) + 1, HasQuote) - 1)]

tags_match(full_link) ==
    first_tags(full_link,
               {d \in DOMAIN full_link :
                   /\ full_link[d] = DataTags
                   /\ RunEnd(full_link, d + 1, HasQuote) <= Len(full_link)
                   /\ full_link[RunEnd(full_link, d + 1, HasQuote)] = Q})

\* content.replace(old, new) for an old that is the lexemes whole and then
\* the first characters, tail, of one more lexeme
RECURSIVE replace_cut(_, _, _, _)
replace_cut(s, whole, tail, new) ==
    IF s = <<>> THEN <<>>
    ELSE IF /\ Len(whole) + (IF tail = <<>> THEN 0 ELSE 1) <= Len(s)
            /\ SubSeq(s, 1, Len(whole)) = whole
            /\ tail # <<>> => Slice(Spelling(s[Len(whole) + 1]), 1, Len(tail)) = tail
    THEN IF tail = <<>>
         THEN new \o replace_cut(SubSeq(s, Len(whole) + 1, Len(s)), whole, tail, new)
         ELSE new \o <<s[Len(whole) + 1]>>
                  \o replace_cut(SubSeq(s, Len(whole) + 2, Len(s)), whole, tail, new)
    ELSE <<Head(s)>> \o replace_cut(Tail(s), whole, tail, new)

\* lines 162-173 for one link
fix_link(content, full_link, found_tags, tags_to_add) ==
    IF full_link.whole = <<>> \/ ~found_tags.ok THEN content
    ELSE replace_cut(content, full_link.whole, full_link.tail,
                     SubDataTags(full_link.whole, 1,
                         Join(SP, Sorted(Range(Split(found_tags.tags)) \cup tags_to_add))))

\* content[start:end] from the lexeme at i to the character before end
cut(content, i, k, end) ==
    [whole |-> Slice(content, i, k - 1),
     tail  |-> IF k > Len(content) THEN <<>>
               ELSE Slice(Spelling(content[k]), 1, end - Offset(content, k))]

\* lines 156-158: the link from the last  <a  that ends before the start
\* of the match to the end of the match, both as they were when the
\* matches were listed
full_link_at(content, span, opens) ==
    IF opens = {} THEN [whole |-> <<>>, tail |-> <<>>]
    ELSE cut(content, Max(opens), lexeme_at(content, span.end), span.end)

\* lines 154-175 for one match
fix_full_link(content, full_link, tags_to_add) ==
    fix_link(content, full_link, tags_match(full_link.whole), tags_to_add)

fix_match(content, span, tags_to_add) ==
    fix_full_link(content,
                  full_link_at(content, span,
                               {i \in DOMAIN content :
                                   content[i] = AOpen /\ Offset(content, i) + 3 <= span.start}),
                  tags_to_add)

\* the loop of lines 154-175 over the matches from the n-th on
RECURSIVE fix_matches(_, _, _, _)
fix_matches(content, spans, n, tags_to_add) ==
    IF n > Len(spans) THEN content
    ELSE fix_matches(fix_match(content, spans[n], tags_to_add), spans, n + 1, tags_to_add)

\* lines 149-175 for one text
fix_text(content, text, tags_to_add) ==
    fix_matches(content, matches(content, text, text_matches(content, text)), 1, tags_to_add)

\* the loop of lines 149-175 over the texts from the n-th on
RECURSIVE fix_texts(_, _, _)
fix_texts(content, todo, n) ==
    IF n > Len(todo) THEN content
    ELSE fix_texts(fix_text(content, todo[n].text, todo[n].tags), todo, n + 1)

\* the content fix_missing_tags writes back (lines 134-181)
fix_missing_tags(content, issues) == fix_texts(content, link_fixes(issues), 1)

----------------------------------------------------------------------------
\* audit_tags.py: audit_tags

\* the error the report of lines 111-116 ends with: a division by the number
\* of links, then max() over the links with tags
audit_error(links) ==
    IF links = <<>> THEN "ZeroDivisionError"
    ELSE IF \A k \in DOMAIN links : links[k].tags = <<>> THEN "ValueError"
    ELSE "none"

----------------------------------------------------------------------------
\* clean_locations.py

Bullet == "BULLET"   \* the bullet character of the pattern (U+2022)

\* the rest of the pattern of line 12 after the opening tag that ends at g,
\* with b the end of the longest run without a bullet.  ([^\u2022]+) is
\* greedy and may hold < and >: it first runs to b, where (\u2022[^<]+)? takes
\* the bullet and the text up to a </a>; failing that it ends before the
\* last </a> of the run.
clean_rest(s, i, g, b) ==
    IF /\ b > g + 1
       /\ b <= Len(s)
       /\ RunEnd(s, b + 1, HasLT) > b + 1
       /\ RunEnd(s, b + 1, HasLT) <= Len(s)
       /\ s[RunEnd(s, b + 1, HasLT)] = AClose
    THEN [ok |-> TRUE, start |-> i, g |-> g, e |-> b, end |-> RunEnd(s, b + 1, HasLT)]
    ELSE IF {e \in (g + 2)..(b - 1) : s[e] = AClose} = {} THEN NoMatch
    ELSE [ok |-> TRUE, start |-> i, g |-> g,
          e   |-> Max({e \in (g + 2)..(b - 1) : s[e] = AClose}),
          end |-> Max({e \in (g + 2)..(b - 1) : s[e] = AClose})]

\*  (<a[^>]+>)([^\u2022]+)(\u2022[^<]+)?(<\/a>)  anchored at i (line 12); in the
\*  files of the model a > of its own ends every opening tag
clean_pattern(s, i) ==
    IF i > Len(s) \/ s[i] # AOpen THEN NoMatch
    ELSE IF RunEnd(s, i + 1, HasGT) > Len(s) \/ s[RunEnd(s, i + 1, HasGT)] # GT THEN NoMatch
    ELSE clean_rest(s, i, RunEnd(s, i + 1, HasGT),
                    RunEnd(s, RunEnd(s, i + 1, HasGT) + 1, {Bullet}))

\* replace_link (lines 14-22): the opening tag, group 2 stripped, </a>
replace_link(s, m) ==
    Slice(s, m.start, m.g) \o strip(Slice(s, m.g + 1, m.e - 1)) \o <<AClose>>

\* re.sub(pattern, replace_link, link_html) from position i on (line 24)
RECURSIVE clean_from(_, _)
clean_from(s, i) ==
    IF i > Len(s) THEN <<>>
    ELSE IF s[i] # AOpen
         THEN Slice(s, i, RunEnd(s, i, {AOpen}) - 1) \o clean_from(s, RunEnd(s, i, {AOpen}))
    ELSE IF clean_pattern(s, i).ok
         THEN replace_link(s, clean_pattern(s, i)) \o clean_from(s, clean_pattern(s, i).end + 1)
    ELSE <<s[i]>> \o clean_from(s, i + 1)

\* lines 9-24
clean_link_text(link_html) == clean_from(link_html, 1)

----------------------------------------------------------------------------
\* enrich_youtube_links.py

ConstMap == "CONST_YOUTUBEMAP"   \* const youtubeMap = {
RBrace   == "RBRACE"             \* }
Semi     == "SEMICOLON"          \* ;
Apos     == "APOS"               \* '
Colon    == "COLON"              \* :
CommaJs  == "COMMA"              \* ,

\* three rows of youtube_mappings (lines 361-363), in the order of the source
youtube_mappings ==
    << [username |-> "bimbo", url |-> "https://www.youtube.com/@Bimbo"],
       [username |-> "lala",  url |-> "https://www.youtube.com/@LALA"],
       [username |-> "jumex", url |-> "https://www.youtube.com/@Jumex"] >>

\* the user names of the model in the order of str.__lt__
UsernameOrder == <<"bimbo", "jumex", "lala">>

\* sorted(youtube_mappings.items()) (line 380): the keys are distinct, so
\* the items are ordered by user name
sorted_items ==
    [n \in DOMAIN UsernameOrder |->
        youtube_mappings[CHOOSE k \in DOMAIN youtube_mappings :
                            youtube_mappings[k].username = UsernameOrder[n]]]

\* f"            '{username}': '{url}',\n" (line 381)
map_line(item) ==
    Repeat(SP, 12) \o <<Apos, item.username, Apos, Colon, SP, Apos, item.url, Apos, CommaJs, NL>>

\* str.rstrip(',\n') (line 382)
RECURSIVE rstrip_comma_newline(_)
rstrip_comma_newline(t) ==
    IF t # <<>> /\ t[Len(t)] \in {CommaJs, NL}
    THEN rstrip_comma_newline(SubSeq(t, 1, Len(t) - 1)) ELSE t

\* youtube_map_content (lines 379-383)
youtube_map_content ==
    rstrip_comma_newline(Repeat(SP, 8) \o <<ConstMap, NL>>
                           \o Flatten([n \in DOMAIN sorted_items |-> map_line(sorted_items[n])]))
        \o <<NL>> \o Repeat(SP, 8) \o <<RBrace, Semi>>

\*  const youtubeMap = \{[^}]*\};  at position i (line 386): the position
\* of the match's last lexeme, or 0
map_pattern(s, i) ==
    IF s[i] = ConstMap
       /\ RunEnd(s, i + 1, {RBrace}) < Len(s)
       /\ s[RunEnd(s, i + 1, {RBrace}) + 1] = Semi
    THEN RunEnd(s, i + 1, {RBrace}) + 1 ELSE 0

\* re.sub(pattern, youtube_map_content, content, flags=re.DOTALL) from
\* position i on (line 387)
RECURSIVE map_sub(_, _)
map_sub_at(s, i, j, e) ==
    IF j > Len(s) THEN Slice(s, i, Len(s))
    ELSE IF e # 0 THEN Slice(s, i, j - 1) \o youtube_map_content \o map_sub(s, e + 1)
    ELSE Slice(s, i, j) \o map_sub(s, j + 1)

map_sub_from(s, i, j) ==
    map_sub_at(s, i, j, IF j > Len(s) THEN 0 ELSE map_pattern(s, j))

map_sub(s, i) ==
    IF i > Len(s) THEN <<>> ELSE map_sub_from(s, i, RunEnd(s, i, {ConstMap}))

\* what update_js_file writes back for the content it read (lines 372-391)
update_js_content(content) == map_sub(content, 1)

----------------------------------------------------------------------------
\* The files the scripts are run on

NoAttr == [has |-> FALSE, val |-> <<>>]
Attr(v) == [has |-> TRUE, val |-> v]

\* <a href='URL' target='_blank'[ data-tags='TAGS']>TEXT</a>
Anchor(url, attr, text) ==
    <<AOpen>> \o url \o <<Q, Target>>
      \o (IF attr.has THEN <<SP, DataTags>> \o attr.val \o <<Q>> ELSE <<>>)
      \o <<GT>> \o text \o <<AClose>>

Urls ==
    { <<IGP, "q", SL>>,        \* https://instagram.com/q/
      <<IGP, "q", SP, "z">>,   \* a blank inside the user name
      <<IGP, "z", LT>> }       \* a < inside the user name

TagAttrs ==
    { NoAttr,
      Attr(<<"x">>),
      Attr(<<"z", SP, "q", SP, "q">>),   \* unsorted, with a duplicate
      Attr(<<"Foo", SP, "foo">>),        \* differing in letter case only
      Attr(<<"x", UND, "y">>),           \* x_y
      Attr(<<"x", GT, "y">>) }           \* x>y

Texts ==
    { <<"Bob">>,
      <<FlagCO, SP, "Bob">>,
      <<FlagCO, SP, "Colombia">>,
      <<FlagCO, SP, "Cali">>,
      <<"Embassy">>,
      <<"EMBASSY">> }

Records == {Anchor(u, a, t) : u \in Urls, a \in TagAttrs, t \in Texts}

\* a second anchor, on the same line or on the next
Companions ==
    { Anchor(<<IGP, "z">>, Attr(<<"y">>), <<"Bob">>),
      Anchor(<<IGP, "z">>, NoAttr, <<"Bob">>) }

Files ==
    Records
      \cup {r \o <<sep>> \o c : r \in Records, sep \in {SP, NL}, c \in Companions}
      \cup {c \o <<sep>> \o r : r \in Records, sep \in {SP, NL}, c \in Companions}

----------------------------------------------------------------------------
\* Runs of the scripts, one after another, on the same file

MaxRuns == 2

\* the scripts that run step by step in some specification
Scripts == {"cti", "fti", "sort", "city", "audit", "deep", "verify"}

\* no file beside the links file, which exists
IoInit ==
    /\ present = TRUE
    /\ csv = <<>>
    /\ usernames = <<>>

\* the runs at their start: those of the scripts in S are about to begin
RunInit(S) ==
    /\ pc = [p \in Scripts |-> IF p \in S THEN "start" ELSE "off"]
    /\ buf = [p \in Scripts |-> <<>>]
    /\ found = [p \in Scripts |-> <<>>]
    /\ answer = [p \in Scripts |-> ""]
    /\ log = <<>>

Init ==
    /\ file \in Files
    /\ before = file
    /\ lastOp = "none"
    /\ prevOp = "none"
    /\ fixes = 0
    /\ exc = "none"
    /\ runs = 0
    /\ IoInit
    /\ RunInit({})

comprehensive_tag_improvement ==
    /\ runs < MaxRuns
    /\ \E r \in {cti_result(file)} :
           /\ file' = r.content
           /\ fixes' = r.fixes
    /\ before' = file
    /\ prevOp' = lastOp
    /\ lastOp' = "cti"
    /\ exc' = "none"
    /\ runs' = runs + 1
    /\ UNCHANGED <<io, run>>

process_file ==
    /\ runs < MaxRuns
    /\ \E r \in {process_file_result(file)} :
           /\ file' = r.content
           /\ exc' = r.exc
    /\ fixes' = 0
    /\ before' = file
    /\ prevOp' = lastOp
    /\ lastOp' = "pf"
    /\ runs' = runs + 1
    /\ UNCHANGED <<io, run>>

fix_tag_issues ==
    /\ runs < MaxRuns
    /\ \E r \in {fix_tag_issues_result(file)} :
           /\ file' = r.content
           /\ fixes' = r.fixes
    /\ before' = file
    /\ prevOp' = lastOp
    /\ lastOp' = "fti"
    /\ exc' = "none"
    /\ runs' = runs + 1
    /\ UNCHANGED <<io, run>>

Next ==
    \/ comprehensive_tag_improvement
    \/ process_file
    \/ fix_tag_issues

Spec == Init /\ [][Next]_vars

----------------------------------------------------------------------------
\* Runs of sort_links.py on a file with link grids

SortTexts ==
    { <<"Bob">>, <<"bob">>, <<"Dan">>, <<FlagCO, SP, "Bob">>, <<SP, "Dan">> }

SortAnchors ==
    {Anchor(<<IGP, "q">>, a, t) : a \in {Attr(<<"x">>), Attr(<<"x", GT, "y">>)},
                                  t \in SortTexts}

PlainAnchors == {Anchor(<<IGP, "q">>, Attr(<<"x">>), t) : t \in SortTexts}

\* a grid with its anchors on lines of their own
Grid(l) == <<DivOpen, NL>> \o Join(NL, l) \o <<NL, DivClose>>

\* two plain anchors in one grid
PlainGrids == {Grid(<<a, b>>) : a \in PlainAnchors, b \in PlainAnchors}

SortFiles ==
    {Grid(<<a, b>>) : a \in SortAnchors, b \in SortAnchors}
      \cup {Grid(<<a, b, c>>) : a \in PlainAnchors, b \in PlainAnchors, c \in PlainAnchors}
      \cup {<<"q", NL>> \o Grid(<<a, b>>) \o <<NL, "z", NL>> \o Grid(<<b, a>>) \o <<NL>> :
               a \in PlainAnchors, b \in PlainAnchors}
      \cup {<<DivOpen, NL>> \o a \o <<NL, "z", NL>> \o b \o <<NL, DivClose>> :
               a \in PlainAnchors, b \in PlainAnchors}

SortInit ==
    /\ file \in SortFiles
    /\ before = file
    /\ lastOp = "none"
    /\ prevOp = "none"
    /\ fixes = 0
    /\ exc = "none"
    /\ runs = 0
    /\ IoInit
    /\ RunInit({})

\* the module body of sort_links.py: read, sort, write back
sort_links_run ==
    /\ runs < MaxRuns
    /\ file' = sort_link_section(file)
    /\ before' = file
    /\ prevOp' = lastOp
    /\ lastOp' = "sort"
    /\ fixes' = 0
    /\ exc' = "none"
    /\ runs' = runs + 1
    /\ UNCHANGED <<io, run>>

SortNext == sort_links_run

SortSpec == SortInit /\ [][SortNext]_vars

----------------------------------------------------------------------------
\* Two runs on the same file, step by step: comprehensive_tag_improvement
\* and city_tag_audit.main.  A step is a read of the file, a write of the
\* file, or the operator's answer; nothing locks the file between them.

\* what the operator may type at a prompt
Answers == {"y", "Y", "n", "yes", ""}

\* an answer that begins with y
AcceptedYes(a) == a \in {"y", "Y", "yes"}

\* input(...).lower() == 'y'
Accepted(a) == a \in {"y", "Y"}

Event(ev, by, content) == [ev |-> ev, by |-> by, content |-> content]

\* lines 11-12: the read
cti_read ==
    /\ pc["cti"] = "start"
    /\ buf' = [buf EXCEPT !["cti"] = file]
    /\ pc' = [pc EXCEPT !["cti"] = "read"]
    /\ log' = Append(log, Event("read", "cti", file))
    /\ UNCHANGED <<file, before, lastOp, prevOp, fixes, exc, runs, io, found, answer>>

\* lines 17-172: the pass over what was read, and the write
cti_write ==
    /\ pc["cti"] = "read"
    /\ \E r \in {cti_result(buf["cti"])} :
           /\ file' = r.content
           /\ fixes' = r.fixes
           /\ log' = Append(log, Event("write", "cti", r.content))
    /\ pc' = [pc EXCEPT !["cti"] = "done"]
    /\ prevOp' = lastOp
    /\ lastOp' = "cti"
    /\ exc' = "none"
    /\ UNCHANGED <<before, runs, io, buf, found, answer>>

\* main, line 130: audit_city_tags reads the file; without fixes main ends
city_audit ==
    /\ pc["city"] = "start"
    /\ \E needed \in {audit_city_tags(file)} :
           /\ found' = [found EXCEPT !["city"] = needed]
           /\ pc' = [pc EXCEPT !["city"] = IF needed = <<>> THEN "done" ELSE "prompt"]
    /\ log' = Append(log, Event("audit", "city", file))
    /\ UNCHANGED <<file, before, lastOp, prevOp, fixes, exc, runs, io, buf, answer>>

\* main, line 145: the prompt
city_prompt ==
    /\ pc["city"] = "prompt"
    /\ \E a \in Answers :
           /\ answer' = [answer EXCEPT !["city"] = a]
           /\ pc' = [pc EXCEPT !["city"] = IF Accepted(a) THEN "apply" ELSE "done"]
    /\ UNCHANGED <<file, before, lastOp, prevOp, fixes, exc, runs, io, buf, found, log>>

\* apply_city_tags, lines 97-98: the read
city_read ==
    /\ pc["city"] = "apply"
    /\ buf' = [buf EXCEPT !["city"] = file]
    /\ pc' = [pc EXCEPT !["city"] = "read"]
    /\ log' = Append(log, Event("read", "city", file))
    /\ UNCHANGED <<file, before, lastOp, prevOp, fixes, exc, runs, io, found, answer>>

\* apply_city_tags, lines 100-124: the fixes on what was read, and the write
city_write ==
    /\ pc["city"] = "read"
    /\ \E new \in {apply_city_tags(buf["city"], found["city"])} :
           /\ file' = new
           /\ log' = Append(log, Event("write", "city", new))
    /\ pc' = [pc EXCEPT !["city"] = "done"]
    /\ prevOp' = lastOp
    /\ lastOp' = "city"
    /\ exc' = "none"
    /\ UNCHANGED <<before, fixes, runs, io, buf, found, answer>>

ConcInit ==
    /\ file \in Files
    /\ before = file
    /\ lastOp = "none"
    /\ prevOp = "none"
    /\ fixes = 0
    /\ exc = "none"
    /\ runs = 0
    /\ IoInit
    /\ RunInit({"cti", "city"})

ConcNext ==
    \/ cti_read
    \/ cti_write
    \/ city_audit
    \/ city_prompt
    \/ city_read
    \/ city_write

ConcSpec == ConcInit /\ [][ConcNext]_vars

----------------------------------------------------------------------------
\* A run that may be interrupted while it writes.  The three scripts end
\* with   with open(filepath, 'w', encoding='utf-8') as f: f.write(content)
\* on the path they read: open truncates the file, write fills it from the
\* start, the end of the with block closes it.

Rewriters == {"cti", "fti", "sort"}

\* what the script makes of the content it read
Rewritten(p, content) ==
    CASE p = "cti" -> cti_result(content).content
      [] p = "fti" -> fix_tag_issues_result(content).content
      [] OTHER -> sort_link_section(content)

\* a file opened without truncation keeps what it holds
open_keeping(content) == content

\* open(filepath, 'w'): the file is there and has length 0
open_w(content) == <<>>

\* fix_tag_issues, lines 13-14: the read
fti_read ==
    /\ pc["fti"] = "start"
    /\ buf' = [buf EXCEPT !["fti"] = file]
    /\ pc' = [pc EXCEPT !["fti"] = "read"]
    /\ log' = Append(log, Event("read", "fti", file))
    /\ UNCHANGED <<file, before, lastOp, prevOp, fixes, exc, runs, io, found, answer>>

\* sort_links.py, lines 38-39: the read
sort_read ==
    /\ pc["sort"] = "start"
    /\ buf' = [buf EXCEPT !["sort"] = file]
    /\ pc' = [pc EXCEPT !["sort"] = "read"]
    /\ log' = Append(log, Event("read", "sort", file))
    /\ UNCHANGED <<file, before, lastOp, prevOp, fixes, exc, runs, io, found, answer>>

\* the new content is computed from what was read, then the file is opened
\* for writing; found[p] holds the content that is to be written
open_for_write ==
    \E p \in Rewriters :
        /\ pc[p] = "read"
        /\ found' = [found EXCEPT ![p] = Rewritten(p, buf[p])]
        /\ file' = open_w(file)
        /\ pc' = [pc EXCEPT ![p] = "open"]
        /\ lastOp' = p
        /\ UNCHANGED <<before, prevOp, fixes, exc, runs, io, buf, answer, log>>

\* f.write(content): some more of the content reaches the file
write_some ==
    \E p \in Rewriters :
        /\ pc[p] = "open"
        /\ \E n \in (Len(file) + 1)..Len(found[p]) :
               file' = SubSeq(found[p], 1, n)
        /\ UNCHANGED <<before, lastOp, prevOp, fixes, exc, runs, io, run>>

\* the end of the with block, once all of the content is in the file
close ==
    \E p \in Rewriters :
        /\ pc[p] = "open"
        /\ file = found[p]
        /\ pc' = [pc EXCEPT ![p] = "done"]
        /\ log' = Append(log, Event("write", p, file))
        /\ UNCHANGED <<file, before, lastOp, prevOp, fixes, exc, runs, io, buf, found, answer>>

\* the process is killed between the open and the end of the write
interrupt ==
    \E p \in Rewriters :
        /\ pc[p] = "open"
        /\ \/ Len(file) < Len(found[p])
           \/ found[p] = <<>>
        /\ pc' = [pc EXCEPT ![p] = "killed"]
        /\ UNCHANGED <<file, before, lastOp, prevOp, fixes, exc, runs, io, buf, found, answer, log>>

CrashFiles == {<<>>} \cup Records \cup PlainGrids

CrashInit ==
    /\ file \in CrashFiles
    /\ before = file
    /\ lastOp = "none"
    /\ prevOp = "none"
    /\ fixes = 0
    /\ exc = "none"
    /\ runs = 0
    /\ IoInit
    /\ \E p \in Rewriters : RunInit({p})

CrashNext ==
    \/ cti_read
    \/ fti_read
    \/ sort_read
    \/ open_for_write
    \/ write_some
    \/ close
    \/ interrupt

CrashSpec == CrashInit /\ [][CrashNext]_vars

----------------------------------------------------------------------------
\* extract_links_to_csv.py and analyze_links_data.py

\* the category keywords that a word of the model holds as a substring
Keywords(word) ==
    CASE word = "embassy"    -> {"embassy"}
      [] word = "museum"     -> {"museum"}
      [] word = "government" -> {"government"}
      [] word = "seafood"    -> {"food"}
      [] word = "bongo"      -> {"ngo"}
      [] OTHER               -> {}

\*  kw in tags  for one of the keywords kws
AnyIn(kws, tags) == \E i \in DOMAIN tags : Keywords(tags[i]) \cap kws # {}

\* the chain of lines 30-45 with its first two tests in the other order
category_cultural_first(tags) ==
    IF AnyIn({"museum", "culture", "teatro", "library"}, tags) THEN <<"Cultural">>
    ELSE IF AnyIn({"embassy", "consulate"}, tags) THEN <<"Diplomatic">>
    ELSE IF AnyIn({"government", "ministry", "alcaldia"}, tags) THEN <<"Government">>
    ELSE IF AnyIn({"food", "restaurant", "coffee"}, tags) THEN <<"Food & Beverage">>
    ELSE IF AnyIn({"university", "education"}, tags) THEN <<"Education">>
    ELSE IF AnyIn({"travel", "tourism"}, tags) THEN <<"Travel">>
    ELSE IF AnyIn({"ngo", "organization"}, tags) THEN <<"Organization">>
    ELSE <<"Other">>

\* lines 30-45
category(tags) ==
    IF AnyIn({"embassy", "consulate"}, tags) THEN <<"Diplomatic">>
    ELSE IF AnyIn({"museum", "culture", "teatro", "library"}, tags) THEN <<"Cultural">>
    ELSE IF AnyIn({"government", "ministry", "alcaldia"}, tags) THEN <<"Government">>
    ELSE IF AnyIn({"food", "restaurant", "coffee"}, tags) THEN <<"Food & Beverage">>
    ELSE IF AnyIn({"university", "education"}, tags) THEN <<"Education">>
    ELSE IF AnyIn({"travel", "tourism"}, tags) THEN <<"Travel">>
    ELSE IF AnyIn({"ngo", "organization"}, tags) THEN <<"Organization">>
    ELSE <<"Other">>

\* lines 22-25: url.split('instagram.com/')[-1].strip('/')
csv_username(url) == IF Occurs(IGP, url) THEN Strip(AfterLast(url, IGP), SL) ELSE <<>>

\* lines 47-85: no user name of the model is in website_mappings or in
\* youtube_mappings
known_url(username) == <<>>

\* lines 87-95: the dictionary of one link
csv_row(m) ==
    [Name               |-> strip(m.text),
     Category           |-> category(m.tags),
     Instagram_Username |-> csv_username(m.url),
     Instagram_URL      |-> m.url,
     YouTube_URL        |-> known_url(csv_username(m.url)),
     Website_URL        |-> known_url(csv_username(m.url)),
     Tags               |-> m.tags]

\* lines 14-95
csv_data(content) ==
    LET links == FindLinks(content, 1)
    IN  [k \in DOMAIN links |-> csv_row(links[k])]

\* line 99
fieldnames ==
    << "Name", "Category", "Instagram_Username", "Instagram_URL",
       "YouTube_URL", "Website_URL", "Tags" >>

\* DictWriter.writeheader: the row of the field names
writeheader == [k \in DOMAIN fieldnames |-> <<fieldnames[k]>>]

\* DictWriter.writerow: the values of the dictionary in the order of fieldnames
writerow(row) == [k \in DOMAIN fieldnames |-> row[fieldnames[k]]]

\* the rows without writeheader
csv_rows_without_header(data) == [k \in DOMAIN data |-> writerow(data[k])]

\* lines 98-104: the rows of the file that is written
csv_rows(data) == <<writeheader>> \o [k \in DOMAIN data |-> writerow(data[k])]

\* a run that would open the path for appending before it reads: the file
\* is created, and the read that follows finds it empty
CreateAndGoOn(p) ==
    /\ ~present
    /\ present' = TRUE
    /\ exc' = "none"
    /\ before' = file
    /\ prevOp' = lastOp
    /\ lastOp' = p
    /\ runs' = runs + 1
    /\ UNCHANGED <<file, fixes, csv, usernames, run>>

\* open(filepath, 'r') on a path that does not exist: the run of script p
\* ends with FileNotFoundError, which nothing catches
Abort(p) ==
    /\ ~present
    /\ exc' = "FileNotFoundError"
    /\ before' = file
    /\ prevOp' = lastOp
    /\ lastOp' = p
    /\ runs' = runs + 1
    /\ UNCHANGED <<file, fixes, io, run>>

\* extract_links_to_csv.main; fixes holds the count that is returned
extract_links_to_csv ==
    /\ runs < MaxRuns
    /\ IF present
       THEN /\ \E data \in {csv_data(file)} :
                   /\ csv' = csv_rows(data)
                   /\ fixes' = Len(data)
            /\ exc' = "none"
            /\ before' = file
            /\ prevOp' = lastOp
            /\ lastOp' = "csv"
            /\ runs' = runs + 1
            /\ UNCHANGED <<file, present, usernames, run>>
       ELSE Abort("csv")

\* analyze_links_data.main, lines 183-188
link_usernames(links) ==
    {csv_username(links[k].url) : k \in {j \in DOMAIN links : Occurs(IGP, links[j].url)}}

\* analyze_links_data.main: the report, then the list of user names, one on
\* a line, sorted
analyze_links_data ==
    /\ runs < MaxRuns
    /\ IF present
       THEN /\ usernames' = Sorted(link_usernames(FindLinks(file, 1)))
            /\ exc' = "none"
            /\ before' = file
            /\ prevOp' = lastOp
            /\ lastOp' = "analyze"
            /\ runs' = runs + 1
            /\ UNCHANGED <<file, fixes, present, csv, run>>
       ELSE Abort("analyze")

\* the mains of the scripts that rewrite the file
cti_main == IF present THEN comprehensive_tag_improvement ELSE runs < MaxRuns /\ Abort("cti")

pf_main == IF present THEN process_file ELSE runs < MaxRuns /\ Abort("pf")

fti_main == IF present THEN fix_tag_issues ELSE runs < MaxRuns /\ Abort("fti")

sort_main == IF present THEN sort_links_run ELSE runs < MaxRuns /\ Abort("sort")

CsvRecords ==
    {Anchor(<<IGP, "q", SL>>, Attr(t), <<SP, "Bob", NL, "Dan">>) :
        t \in { <<"embassy">>, <<"museum", SP, "seafood">>, <<"seafood", SP, "bongo">>,
                <<"bongo", NL, "government">>, <<"museum", SP, "embassy">> }}

ExportFiles ==
    Records \cup CsvRecords
      \cup {r \o <<NL>> \o c : r \in CsvRecords, c \in Companions}
      \cup {c \o <<NL>> \o r : r \in CsvRecords, c \in Companions}

\* the links file is there or is not; no other file is
LinksFileInit ==
    /\ present \in BOOLEAN
    /\ file \in IF present THEN ExportFiles ELSE {<<>>}
    /\ csv = <<>>
    /\ usernames = <<>>

ExportInit ==
    /\ LinksFileInit
    /\ before = file
    /\ lastOp = "none"
    /\ prevOp = "none"
    /\ fixes = 0
    /\ exc = "none"
    /\ runs = 0
    /\ RunInit({})

ExportNext ==
    \/ extract_links_to_csv
    \/ analyze_links_data
    \/ cti_main
    \/ pf_main
    \/ fti_main
    \/ sort_main

ExportSpec == ExportInit /\ [][ExportNext]_vars

----------------------------------------------------------------------------
\* audit_tags.py: fix_edge_cases

\*  <a[^>]*data-tags="([^"]+)"[^>]*>[^<]+</a>  anchored at i (line 145).  Of
\*  the lexemes of the model only <a href=" begins with <a.  The first [^>]*
\*  is greedy: the last data-tags= before the first > from which the rest
\*  matches, with a value that is not empty, is taken.
edge_attr(s, i, cands) ==
    IF cands = {} THEN NoMatch
    ELSE [ok |-> TRUE, tags |-> AttrAndRest(s, Max(cands)).tags,
          start |-> i, end |-> AttrAndRest(s, Max(cands)).end]

edge_pattern(s, i) ==
    IF i > Len(s) \/ s[i] # AOpen THEN NoMatch
    ELSE edge_attr(s, i, {d \in (i + 1)..(RunEnd(s, i + 1, HasGT) - 1) :
                              /\ AttrAndRest(s, d).ok
                              /\ AttrAndRest(s, d).tags # <<>>})

\* the tags in the order of their last occurrence
unique_tags_last(tag_list) ==
    LET first == {i \in DOMAIN tag_list :
                     \A j \in (i + 1)..Len(tag_list) : tag_list[j] # tag_list[i]}
    IN  [k \in 1..Cardinality(first) |->
            tag_list[CHOOSE i \in first : Cardinality({j \in first : j <= i}) = k]]

\* lines 133-138: the tags in the order of their first occurrence
unique_tags(tag_list) ==
    LET first == {i \in DOMAIN tag_list : \A j \in 1..(i - 1) : tag_list[j] # tag_list[i]}
    IN  [k \in 1..Cardinality(first) |->
            tag_list[CHOOSE i \in first : Cardinality({j \in first : j <= i}) = k]]

\* the replacement of lines 139-143 when tag_list lost an entry
deduplicated(full_match, tags, unique) ==
    IF Len(unique) < Len(Split(tags))
    THEN [out |-> replace(full_match, <<DataTags>> \o tags \o <<Q>>,
                          <<DataTags>> \o Join(SP, unique) \o <<Q>>),
          fixed |-> TRUE]
    ELSE [out |-> full_match, fixed |-> FALSE]

\* remove_duplicates on one match (lines 129-143)
remove_duplicates(full_match, m) ==
    deduplicated(full_match, m.tags, unique_tags(Split(m.tags)))

\* re.sub(pattern, remove_duplicates, s) from position i on (line 145)
RECURSIVE remove_all(_, _)
remove_from(s, i, m) ==
    IF m.ok
    THEN Replaced(remove_duplicates(Slice(s, i, m.end), m), remove_all(s, m.end + 1))
    ELSE Replaced(Kept(s[i]), remove_all(s, i + 1))

remove_all(s, i) ==
    IF i > Len(s) THEN [out |-> <<>>, n |-> 0]
    ELSE IF s[i] # AOpen
    THEN Replaced(KeptRun(s, i, RunEnd(s, i, {AOpen})),
                  remove_all(s, RunEnd(s, i, {AOpen})))
    ELSE remove_from(s, i, edge_pattern(s, i))

\* the content written back and the count returned (lines 120-153)
fix_edge_cases_result(content) ==
    [content |-> remove_all(content, 1).out, fixes |-> remove_all(content, 1).n]

fix_edge_cases ==
    /\ runs < MaxRuns
    /\ \E r \in {fix_edge_cases_result(file)} :
           /\ file' = r.content
           /\ fixes' = r.fixes
    /\ before' = file
    /\ prevOp' = lastOp
    /\ lastOp' = "edge"
    /\ exc' = "none"
    /\ runs' = runs + 1
    /\ UNCHANGED <<io, run>>

\* files without an anchor that a pattern matches: text, attributes outside
\* anchors, anchors without a text or without an address
Unmatched ==
    {<<>>, <<"x", NL, "y">>}
      \cup {<<"x", SP, DataTags>> \o t \o <<Q, NL>> :
               t \in {<<"x">>, <<"x", UND, "y">>, <<"q", SP, "q">>}}
      \cup {<<AOpen>> \o u \o <<Q, Target, SP, DataTags>> \o t \o <<Q, GT, AClose>> :
               u \in {<<IGP, "q">>}, t \in {<<"x">>, <<"x", UND, "y">>, <<"q", SP, "q">>}}
      \cup {<<AOpen, Q, Target, GT, "Bob", AClose>>}

\* anchors with the same tag twice: in one attribute, on two lines of one
\* attribute, and with the attribute itself twice
Doubled ==
    { Anchor(<<IGP, "q">>, Attr(<<"q", NL, "q", SP, "x">>), <<"Bob">>),
      Anchor(<<IGP, "q">>, Attr(<<"x", SP, "q", SP, "x", SP, "q">>), <<"Bob">>),
      <<AOpen, IGP, "q", Q, SP, DataTags, "q", SP, "q", Q, SP, DataTags, "q", SP, "q", Q,
        GT, "Bob", AClose>>,
      <<AOpen, IGP, "q", Q, SP, DataTags, "z", SP, "z", Q, SP, DataTags, "q", SP, "q", Q,
        GT, "Bob", AClose>>,
      <<AOpen, Q, SP, DataTags, "q", SP, "q", Q, GT, "Bob", AClose>> }

EdgeFiles ==
    Records \cup Unmatched \cup Doubled
      \cup {a \o <<sep>> \o b : a \in Unmatched \cup Doubled, sep \in {SP, NL},
                                b \in Unmatched \cup Doubled \cup Companions}

EdgeInit ==
    /\ file \in EdgeFiles
    /\ before = file
    /\ lastOp = "none"
    /\ prevOp = "none"
    /\ fixes = 0
    /\ exc = "none"
    /\ runs = 0
    /\ IoInit
    /\ RunInit({})

EdgeNext ==
    \/ comprehensive_tag_improvement
    \/ fix_tag_issues
    \/ fix_edge_cases

EdgeSpec == EdgeInit /\ [][EdgeNext]_vars

----------------------------------------------------------------------------
\* The runs that ask before they write: audit_tags.py, city_tag_audit.py,
\* deep_tag_audit.py, verify_tags.py.  One of them runs; its steps are the
\* audit, the operator's answer, and the function that rewrites the file.

Prompters == {"audit", "city", "deep", "verify"}

\* audit_tags, line 158: the audit reads the file and reports
audit_tags ==
    /\ pc["audit"] = "start"
    /\ \E e \in {audit_error(FindLinks(file, 1))} :
           /\ exc' = e
           /\ pc' = [pc EXCEPT !["audit"] = IF e = "none" THEN "prompt" ELSE "failed"]
    /\ log' = Append(log, Event("audit", "audit", file))
    /\ UNCHANGED <<file, before, lastOp, prevOp, fixes, runs, io, buf, found, answer>>

\* audit_tags, line 161: the prompt
audit_prompt ==
    /\ pc["audit"] = "prompt"
    /\ \E a \in Answers :
           /\ answer' = [answer EXCEPT !["audit"] = a]
           /\ pc' = [pc EXCEPT !["audit"] = IF Accepted(a) THEN "apply" ELSE "done"]
    /\ UNCHANGED <<file, before, lastOp, prevOp, fixes, exc, runs, io, buf, found, log>>

\* audit_tags, line 162: fix_edge_cases reads the file and writes it
audit_fix ==
    /\ pc["audit"] = "apply"
    /\ \E r \in {fix_edge_cases_result(file)} :
           /\ file' = r.content
           /\ fixes' = r.fixes
           /\ log' = log \o <<Event("read", "audit", file), Event("write", "audit", r.content)>>
    /\ buf' = [buf EXCEPT !["audit"] = file]
    /\ pc' = [pc EXCEPT !["audit"] = "done"]
    /\ prevOp' = lastOp
    /\ lastOp' = "audit"
    /\ UNCHANGED <<before, exc, runs, io, found, answer>>

\* the error that the final statistics of deep_tag_audit.main end with
\* (lines 226-227): no tag to be the most common one, or the name links,
\* which main does not define
deep_error(links) ==
    IF \A k \in DOMAIN links : Split(links[k].tags) = <<>> THEN "IndexError" ELSE "NameError"

\* deep_tag_audit.main, line 187: the audit; without issues main goes on to
\* its final statistics
deep_audit ==
    /\ pc["deep"] = "start"
    /\ \E issues \in {deep_tag_audit(file)} :
           /\ found' = [found EXCEPT !["deep"] = issues]
           /\ pc' = [pc EXCEPT !["deep"] = IF issues = <<>> THEN "done" ELSE "prompt"]
           /\ exc' = IF issues = <<>> THEN deep_error(FindLinks(file, 1)) ELSE exc
    /\ buf' = [buf EXCEPT !["deep"] = file]
    /\ log' = Append(log, Event("audit", "deep", file))
    /\ UNCHANGED <<file, before, lastOp, prevOp, fixes, runs, io, answer>>

\* line 214: the prompt
deep_prompt ==
    /\ pc["deep"] = "prompt"
    /\ \E a \in Answers :
           /\ answer' = [answer EXCEPT !["deep"] = a]
           /\ pc' = [pc EXCEPT !["deep"] = IF Accepted(a) THEN "apply" ELSE "done"]
           /\ exc' = IF Accepted(a) THEN exc ELSE deep_error(FindLinks(buf["deep"], 1))
    /\ UNCHANGED <<file, before, lastOp, prevOp, fixes, runs, io, buf, found, log>>

\* line 215: fix_missing_tags reads the file and writes it; then the final
\* statistics, on the tags that the audit counted
deep_fix ==
    /\ pc["deep"] = "apply"
    /\ \E new \in {fix_missing_tags(file, found["deep"])} :
           /\ file' = new
           /\ log' = log \o <<Event("read", "deep", file), Event("write", "deep", new)>>
    /\ exc' = deep_error(FindLinks(buf["deep"], 1))
    /\ buf' = [buf EXCEPT !["deep"] = file]
    /\ pc' = [pc EXCEPT !["deep"] = "done"]
    /\ prevOp' = lastOp
    /\ lastOp' = "deep"
    /\ UNCHANGED <<before, fixes, runs, io, found, answer>>

\* verify_tags.main, line 115: verify_tags reads the file; without
\* corrections main ends
verify_audit ==
    /\ pc["verify"] = "start"
    /\ \E corrections \in {verify_tags(file)} :
           /\ found' = [found EXCEPT !["verify"] = corrections]
           /\ pc' = [pc EXCEPT !["verify"] = IF corrections = <<>> THEN "done" ELSE "prompt"]
    /\ log' = Append(log, Event("audit", "verify", file))
    /\ UNCHANGED <<file, before, lastOp, prevOp, fixes, exc, runs, io, buf, answer>>

\* line 135: the prompt
verify_prompt ==
    /\ pc["verify"] = "prompt"
    /\ \E a \in Answers :
           /\ answer' = [answer EXCEPT !["verify"] = a]
           /\ pc' = [pc EXCEPT !["verify"] = IF Accepted(a) THEN "apply" ELSE "done"]
    /\ UNCHANGED <<file, before, lastOp, prevOp, fixes, exc, runs, io, buf, found, log>>

\* line 136: apply_corrections reads the file and writes it
verify_apply ==
    /\ pc["verify"] = "apply"
    /\ \E new \in {apply_corrections(file, found["verify"])} :
           /\ file' = new
           /\ log' = log \o <<Event("read", "verify", file), Event("write", "verify", new)>>
    /\ buf' = [buf EXCEPT !["verify"] = file]
    /\ pc' = [pc EXCEPT !["verify"] = "done"]
    /\ prevOp' = lastOp
    /\ lastOp' = "verify"
    /\ UNCHANGED <<before, fixes, exc, runs, io, found, answer>>

PromptInit ==
    /\ file \in Files
    /\ before = file
    /\ lastOp = "none"
    /\ prevOp = "none"
    /\ fixes = 0
    /\ exc = "none"
    /\ runs = 0
    /\ IoInit
    /\ \E p \in Prompters : RunInit({p})

PromptNext ==
    \/ audit_tags
    \/ audit_prompt
    \/ audit_fix
    \/ city_audit
    \/ city_prompt
    \/ city_read
    \/ city_write
    \/ deep_audit
    \/ deep_prompt
    \/ deep_fix
    \/ verify_audit
    \/ verify_prompt
    \/ verify_apply

PromptSpec == PromptInit /\ [][PromptNext]_vars

----------------------------------------------------------------------------
\* One run of a script that adds tags: comprehensive_tag_improvement, or
\* city_tag_audit or verify_tags with the operator's answer.

TagAdders == {"cti", "city", "verify"}

\* a data-tags attribute that stands in no anchor
Loose == {<<"x", SP, DataTags, "y", Q>>}

\* the files of the other runs; a record after a loose attribute, on the
\* same line or on the next; the same record twice
FrameFiles ==
    Files
      \cup {o \o <<sep>> \o r : o \in Loose, sep \in {SP, NL}, r \in Records}
      \cup {r \o <<sep>> \o r : sep \in {SP, NL}, r \in Records}

FrameInit ==
    /\ file \in FrameFiles
    /\ before = file
    /\ lastOp = "none"
    /\ prevOp = "none"
    /\ fixes = 0
    /\ exc = "none"
    /\ runs = 0
    /\ IoInit
    /\ \E p \in TagAdders : RunInit({p})

FrameNext ==
    \/ cti_read
    \/ cti_write
    \/ city_audit
    \/ city_prompt
    \/ city_read
    \/ city_write
    \/ verify_audit
    \/ verify_prompt
    \/ verify_apply

FrameSpec == FrameInit /\ [][FrameNext]_vars

----------------------------------------------------------------------------
\* Runs on links to accounts with an underscore in the user name

SnakeUrls ==
    { <<IGP, "x", UND, "y">>,        \* https://instagram.com/x_y
      <<IGP, "x", UND, "y", SL>> }

SnakeFiles ==
    Records \cup {Anchor(u, a, t) : u \in SnakeUrls, a \in TagAttrs, t \in Texts}

SnakeInit ==
    /\ file \in SnakeFiles
    /\ before = file
    /\ lastOp = "none"
    /\ prevOp = "none"
    /\ fixes = 0
    /\ exc = "none"
    /\ runs = 0
    /\ IoInit
    /\ RunInit({})

SnakeNext ==
    \/ comprehensive_tag_improvement
    \/ fix_tag_issues

SnakeSpec == SnakeInit /\ [][SnakeNext]_vars

----------------------------------------------------------------------------
\* Runs of clean_locations.py

\* process_file (lines 26-42): read, clean, write back
clean_locations ==
    /\ runs < MaxRuns
    /\ file' = clean_link_text(file)
    /\ before' = file
    /\ prevOp' = lastOp
    /\ lastOp' = "clean"
    /\ fixes' = 0
    /\ exc' = "none"
    /\ runs' = runs + 1
    /\ UNCHANGED <<io, run>>

\* display texts: with a location after a bullet, with two bullets,
\* without a bullet, and with white space at an end
CleanTexts ==
    { <<"Bob">>,
      <<FlagCO, SP, "Bob", SP, Bullet, SP, "Cali">>,
      <<"Bob", Bullet, "Cali", SP, Bullet, SP, "Colombia">>,
      <<SP, "Bob">>,
      <<"Bob", SP, "Dan", NL>>,
      <<SP, "Bob", SP, Bullet, "Cali">> }

CleanAnchors == {Anchor(<<IGP, "q">>, Attr(<<"x">>), t) : t \in CleanTexts}

\* one anchor; two anchors with a blank, a line feed or a bullet between
CleanFiles ==
    CleanAnchors
      \cup {Anchor(<<IGP, "q">>, NoAttr, t) : t \in CleanTexts}
      \cup {a \o sep \o b : a \in CleanAnchors, b \in CleanAnchors,
                             sep \in {<<SP>>, <<NL>>, <<SP, Bullet, SP>>}}

CleanInit ==
    /\ file \in CleanFiles
    /\ before = file
    /\ lastOp = "none"
    /\ prevOp = "none"
    /\ fixes = 0
    /\ exc = "none"
    /\ runs = 0
    /\ IoInit
    /\ RunInit({})

CleanNext == clean_locations

CleanSpec == CleanInit /\ [][CleanNext]_vars

----------------------------------------------------------------------------
\* One run of deep_tag_audit.main on files with two or three records, some
\* of them with the same display text

DeepAnchors ==
    {Anchor(u, Attr(a), t) :
        u \in {<<IGP, "q">>, <<IGP, "z", SL>>},
        a \in {<<"x">>, <<"colombia">>, <<"colombia", SP, "spanish-speaking">>},
        t \in {<<"Bob">>, <<FlagCO, SP, "Bob">>, <<"Embassy">>}}

DeepFiles ==
    {a \o <<sep>> \o b : a \in DeepAnchors, b \in DeepAnchors, sep \in {SP, NL}}
      \cup {a \o <<NL>> \o b \o <<NL>> \o a :
               a \in DeepAnchors, b \in {Anchor(<<IGP, "z", SL>>, Attr(<<"x">>), <<"Bob">>),
                                         Anchor(<<IGP, "z", SL>>, Attr(<<"colombia">>), <<"Bob">>)}}

DeepInit ==
    /\ file \in DeepFiles
    /\ before = file
    /\ lastOp = "none"
    /\ prevOp = "none"
    /\ fixes = 0
    /\ exc = "none"
    /\ runs = 0
    /\ IoInit
    /\ RunInit({"deep"})

DeepNext ==
    \/ deep_audit
    \/ deep_prompt
    \/ deep_fix

DeepSpec == DeepInit /\ [][DeepNext]_vars

----------------------------------------------------------------------------
\* Runs of verify_tags.main, one after another

\* the operator starts verify_tags.py again after a run has ended
verify_rerun ==
    /\ pc["verify"] = "done"
    /\ runs < MaxRuns
    /\ runs' = runs + 1
    /\ pc' = [pc EXCEPT !["verify"] = "start"]
    /\ prevOp' = lastOp
    /\ lastOp' = "rerun"
    /\ before' = file
    /\ UNCHANGED <<file, fixes, exc, io, buf, found, answer, log>>

\* two records with the same URL and display text
Twins ==
    {Anchor(<<IGP, "q", SL>>, Attr(a), t) \o <<sep>> \o Anchor(<<IGP, "q", SL>>, Attr(b), t) :
        a \in {<<"x">>, <<"q">>, <<"diplomatic", SP, "embassy", SP, "q">>},
        b \in {<<"x">>, <<"q">>, <<"diplomatic", SP, "embassy", SP, "q">>},
        t \in {<<"Bob">>, <<"Embassy">>},
        sep \in {SP, NL}}

VerifyFiles == Files \cup Twins

VerifyInit ==
    /\ file \in VerifyFiles
    /\ before = file
    /\ lastOp = "none"
    /\ prevOp = "none"
    /\ fixes = 0
    /\ exc = "none"
    /\ runs = 0
    /\ IoInit
    /\ RunInit({"verify"})

VerifyNext ==
    \/ verify_audit
    \/ verify_prompt
    \/ verify_apply
    \/ verify_rerun

VerifySpec == VerifyInit /\ [][VerifyNext]_vars

----------------------------------------------------------------------------
\* Runs of enrich_youtube_links.py on links-hover-menu.js

\* update_js_file (lines 367-393): read, substitute, write back
update_js_file ==
    /\ runs < MaxRuns
    /\ file' = update_js_content(file)
    /\ before' = file
    /\ prevOp' = lastOp
    /\ lastOp' = "js"
    /\ fixes' = 0
    /\ exc' = "none"
    /\ runs' = runs + 1
    /\ UNCHANGED <<io, run>>

\* an entry of an earlier youtubeMap
OldLine == Repeat(SP, 4) \o <<Apos, "q", Apos, Colon, SP, Apos, "z", Apos, NL>>

\* youtubeMap literals: empty, with an old entry, as the script writes it,
\* without the semicolon, and with a } before the closing };
MapLiterals ==
    { <<ConstMap, RBrace, Semi>>,
      <<ConstMap, NL>> \o OldLine \o <<RBrace, Semi>>,
      Slice(youtube_map_content, 9, Len(youtube_map_content)),
      <<ConstMap, NL>> \o OldLine \o <<RBrace>>,
      <<ConstMap, "q", RBrace, SP, RBrace, Semi>> }

JsFiles ==
    { head \o Repeat(SP, n) \o lit \o rest :
        head \in { <<>>, <<"x", NL>> },
        n \in {0, 4, 8},
        lit \in MapLiterals,
        rest \in { <<NL>>, <<NL, "x", NL>>, <<NL, ConstMap, RBrace, Semi, NL>> } }

JsInit ==
    /\ file \in JsFiles
    /\ before = file
    /\ lastOp = "none"
    /\ prevOp = "none"
    /\ fixes = 0
    /\ exc = "none"
    /\ runs = 0
    /\ IoInit
    /\ RunInit({})

JsNext == update_js_file

JsSpec == JsInit /\ [][JsNext]_vars

----------------------------------------------------------------------------
\* The pipeline: rounds of fix_tag_issues followed by
\* comprehensive_tag_improvement on the same file

MaxRounds == 3

\* the first half of a round; buf keeps the content the round began with
round_fix_tag_issues ==
    /\ lastOp # "fti"
    /\ runs < 2 * MaxRounds
    /\ \E r \in {fix_tag_issues_result(file)} :
           /\ file' = r.content
           /\ fixes' = r.fixes
    /\ buf' = [buf EXCEPT !["fti"] = file]
    /\ before' = file
    /\ prevOp' = lastOp
    /\ lastOp' = "fti"
    /\ exc' = "none"
    /\ runs' = runs + 1
    /\ UNCHANGED <<io, pc, found, answer, log>>

\* the second half of a round
round_comprehensive_tag_improvement ==
    /\ lastOp = "fti"
    /\ \E r \in {cti_result(file)} :
           /\ file' = r.content
           /\ fixes' = r.fixes
    /\ before' = file
    /\ prevOp' = lastOp
    /\ lastOp' = "cti"
    /\ exc' = "none"
    /\ runs' = runs + 1
    /\ UNCHANGED <<io, run>>

PipeFiles == Files \cup SnakeFiles

PipeInit ==
    /\ file \in PipeFiles
    /\ before = file
    /\ lastOp = "none"
    /\ prevOp = "none"
    /\ fixes = 0
    /\ exc = "none"
    /\ runs = 0
    /\ IoInit
    /\ RunInit({})

PipeNext ==
    \/ round_fix_tag_issues
    \/ round_comprehensive_tag_improvement

PipeSpec == PipeInit /\ [][PipeNext]_vars

----------------------------------------------------------------------------
\* Reading a file back: its anchors, in file order

Opens(s) == {i \in DOMAIN s : s[i] = AOpen}

\* the anchor that opens at i, up to its </a>
AnchorAt(s, i) ==
    LET e == RunEnd(s, i, {AClose})
    IN  Slice(s, i, IF e > Len(s) THEN Len(s) ELSE e)

RECURSIVE AnchorsFrom(_, _)
AnchorsFrom(s, i) ==
    IF i > Len(s) THEN <<>>
    ELSE IF s[i] = AOpen
         THEN <<[at |-> i, html |-> AnchorAt(s, i)]>> \o AnchorsFrom(s, i + 1)
         ELSE AnchorsFrom(s, i + 1)

Anchors(s) == AnchorsFrom(s, 1)

HasTagsAttr(a) == Occurs(DataTags, a.html)

\* the value of the anchor's data-tags attribute
TagString(a) ==
    LET d == Min({i \in DOMAIN a.html : a.html[i] = DataTags})
    IN  Slice(a.html, d + 1, RunEnd(a.html, d + 1, HasQuote) - 1)

TagList(a) == IF HasTagsAttr(a) THEN Split(TagString(a)) ELSE <<>>

TagSet(a) == Range(TagList(a))

\* the text between the opening tag and </a>
DisplayText(a) ==
    LET gts == {i \in DOMAIN a.html : a.html[i] = GT}
    IN  IF gts = {} THEN <<>>
        ELSE Slice(a.html, Max(gts) + 1, Len(a.html) - 1)

\* no other anchor opens on the line of the anchor that opens at i
AloneOnLine(s, i) ==
    \A j \in Opens(s) \ {i} :
        \E n \in (IF i < j THEN i ELSE j)..(IF i < j THEN j ELSE i) : s[n] = NL

\* <a href="URL" target="_blank" data-tags="..">TEXT</a>
TaggedForm(a) == improve_match(a.html).ok /\ HasTagsAttr(a)

\* a sequence of tags is in strictly ascending order
Ascending(l) == \A i \in DOMAIN l : \A j \in DOMAIN l : i < j => StrLess(l[i], l[j])

SameAnchors == Len(Anchors(file)) = Len(Anchors(before))

----------------------------------------------------------------------------
\* Claims

\* C1: comprehensive_tag_improvement removes no tag: every anchor that had
\* a data-tags attribute before the run still has each of its tags after
\* it, also when its line holds more than one anchor.
C1_TagsKept ==
    lastOp = "cti" =>
        /\ SameAnchors
        /\ \A k \in DOMAIN Anchors(before) :
               HasTagsAttr(Anchors(before)[k])
                   => TagSet(Anchors(before)[k]) \subseteq TagSet(Anchors(file)[k])

\* C2: fix_tag_issues removes no tag: every anchor that had a data-tags
\* attribute before the run still has each of its tags, with underscores
\* turned into hyphens, after it.
C2_TagsKept ==
    lastOp = "fti" =>
        /\ SameAnchors
        /\ \A k \in DOMAIN Anchors(before) :
               HasTagsAttr(Anchors(before)[k])
                   => {ReplaceTok(t, UND, HY) : t \in TagSet(Anchors(before)[k])}
                          \subseteq TagSet(Anchors(file)[k])

\* C3: a second run of comprehensive_tag_improvement right after a first
\* leaves the file as the first run left it and returns a fix count of 0.
C3_Idempotent ==
    (lastOp = "cti" /\ prevOp = "cti") => (file = before /\ fixes = 0)

\* C4: a second run of improve_tags.process_file right after a first leaves
\* the file as the first run left it.
C4_Idempotent ==
    (lastOp = "pf" /\ prevOp = "pf") => file = before

\* C5: after comprehensive_tag_improvement the data-tags value of every
\* record its link pattern matches is the sorted, duplicate-free union of
\* the record's previous tags and the tags derived from its URL and text,
\* also when no tag is derived.
C5_SortedUnion ==
    lastOp = "cti" =>
        LET old == FindLinks(before, 1)
            new == FindLinks(file, 1)
        IN  /\ Len(new) = Len(old)
            /\ \A k \in DOMAIN old :
                   new[k].tags =
                       Join(SP, Sorted(cti_tag_list(old[k].url, old[k].tags, old[k].text)))

\* C6: after process_file the data-tags value of every anchor of the form
\* <a href=URL target="_blank" [data-tags=..]>TEXT</a> is a list of
\* lower-case tokens in lexical order with no token twice.
C6_CleanTags ==
    lastOp = "pf" =>
        /\ SameAnchors
        /\ \A k \in DOMAIN Anchors(before) :
               improve_match(Anchors(before)[k].html).ok =>
                   LET l == TagList(Anchors(file)[k])
                   IN  /\ HasTagsAttr(Anchors(file)[k])
                       /\ \A i \in DOMAIN l : LowerStr(l[i]) = l[i]
                       /\ Ascending(l)

\* the anchors of the file before the last run whose text holds the flag
\* of Colombia and that stand alone on their line
FlaggedAlone ==
    {k \in DOMAIN Anchors(before) :
        /\ Occurs(FlagCO, DisplayText(Anchors(before)[k]))
        /\ AloneOnLine(before, Anchors(before)[k].at)}

\* C7 as stated: after comprehensive_tag_improvement every record whose
\* text holds the flag of Colombia and that is the only anchor on its line
\* has the tag colombia.
C7_FlagColombiaAnyRecord ==
    lastOp = "cti" =>
        /\ SameAnchors
        /\ \A k \in FlaggedAlone : <<"colombia">> \in TagSet(Anchors(file)[k])

\* C7, amended: after comprehensive_tag_improvement every record that the
\* link pattern matches (it carries a data-tags attribute), whose text
\* holds the flag of Colombia and that is the only anchor on its line has
\* the tag colombia; a record without the attribute is left as it was.
C7_FlagColombia ==
    lastOp = "cti" =>
        /\ SameAnchors
        /\ \A k \in FlaggedAlone :
               IF link_pattern(before, Anchors(before)[k].at).ok
               THEN <<"colombia">> \in TagSet(Anchors(file)[k])
               ELSE HasTagsAttr(Anchors(before)[k])
                       \/ Anchors(file)[k].html = Anchors(before)[k].html

C7_Witness ==
    /\ lastOp = "cti"
    /\ \E k \in FlaggedAlone :
           /\ link_pattern(before, Anchors(before)[k].at).ok
           /\ <<"colombia">> \notin TagSet(Anchors(before)[k])
           /\ <<"colombia">> \in TagSet(Anchors(file)[k])

\* C8: after process_file every record of the form
\* <a href=URL target="_blank" data-tags=..>TEXT</a> whose text holds the
\* flag of Colombia has the tag colombia, whether or not the text spells
\* Colombia.
C8_FlagColombia ==
    lastOp = "pf" =>
        /\ SameAnchors
        /\ \A k \in DOMAIN Anchors(before) :
               (/\ TaggedForm(Anchors(before)[k])
                /\ Occurs(FlagCO, DisplayText(Anchors(before)[k])))
                   => <<"colombia">> \in TagSet(Anchors(file)[k])

\* the anchors of the file before the last run that have the form
\* <a href=URL target="_blank" data-tags=..>TEXT</a>, stand alone on their
\* line and whose text holds Embassy in any letter case
EmbassyAlone ==
    {k \in DOMAIN Anchors(before) :
        /\ TaggedForm(Anchors(before)[k])
        /\ AloneOnLine(before, Anchors(before)[k].at)
        /\ Occurs("embassy", LowerStr(DisplayText(Anchors(before)[k])))}

\* C9: after comprehensive_tag_improvement, and after process_file, every
\* such record has the tags embassy and diplomatic.
C9_Embassy ==
    lastOp \in {"cti", "pf"} =>
        /\ SameAnchors
        /\ \A k \in EmbassyAlone :
               {<<"embassy">>, <<"diplomatic">>} \subseteq TagSet(Anchors(file)[k])

C9_Witness ==
    /\ lastOp \in {"cti", "pf"}
    /\ \E k \in EmbassyAlone :
           /\ TagSet(Anchors(before)[k]) \cap {<<"embassy">>, <<"diplomatic">>} = {}
           /\ {<<"embassy">>, <<"diplomatic">>} \subseteq TagSet(Anchors(file)[k])

\* C10: the pass's own pattern finds as many records in the file a run
\* wrote as in the file the run read.
C10_RoundTrip ==
    /\ lastOp = "cti" => Len(FindLinks(file, 1)) = Len(FindLinks(before, 1))
    /\ lastOp = "pf" => count_anchors(file, 1) = count_anchors(before, 1)

\* the contents of the link grids of a file, in file order
RECURSIVE GridsFrom(_, _)
GridsFrom(s, i) ==
    IF i > Len(s) THEN <<>>
    ELSE IF s[i] = DivOpen /\ RunEnd(s, i + 1, {DivClose}) <= Len(s)
         THEN <<Slice(s, i + 1, RunEnd(s, i + 1, {DivClose}) - 1)>>
                \o GridsFrom(s, RunEnd(s, i + 1, {DivClose}) + 1)
         ELSE GridsFrom(s, i + 1)

Grids(s) == GridsFrom(s, 1)

\* the anchors of a piece of the file, as text
AnchorHtmls(s) == [k \in DOMAIN Anchors(s) |-> Anchors(s)[k].html]

\* the display text of an anchor without emoji, trimmed, in lower case
TextKey(html) ==
    LowerStr(strip(SelectSeq(DisplayText([html |-> html]), LAMBDA t : t \notin Emoji)))

\* the anchors l in the order of their text keys, equal keys in the order of l
StableByText(l) == sorted_by(l, [i \in DOMAIN l |-> TextKey(l[i])])

\* C11: after sort_links the anchors of every link grid are the anchors it
\* had before, ordered by display text with emoji removed, trimmed and
\* lower-cased, anchors of equal key in their previous order.
C11_SortedByText ==
    lastOp = "sort" =>
        /\ Len(Grids(file)) = Len(Grids(before))
        /\ \A k \in DOMAIN Grids(before) :
               AnchorHtmls(Grids(file)[k]) = StableByText(AnchorHtmls(Grids(before)[k]))

\* the writes of the file so far, in order
Writes == SelectSeq(log, LAMBDA e : e.ev = "write")

\* the places in the log of the events of script p
EventsOf(p) == {n \in DOMAIN log : log[n].by = p}

FirstWrite == Min({n \in DOMAIN log : log[n].ev = "write"})

\* both runs read the file before either wrote it
Overlapped ==
    \A n \in DOMAIN log : log[n].ev = "read" => n < FirstWrite

\* the run that wrote first had ended before the other began
Apart ==
    \A m \in EventsOf(Writes[1].by) : \A n \in EventsOf(Writes[2].by) : m < n

\* what the run of script p writes when it has read content
Transformed(p, content) ==
    IF p = "cti" THEN cti_result(content).content
    ELSE apply_city_tags(content, found["city"])

\* the tags anchor k has in content new and had not in content old
AddedTags(old, new, k) == TagSet(Anchors(new)[k]) \ TagSet(Anchors(old)[k])

\* C12 (overlap): when both runs have read the file before either writes,
\* the file ends as the last writer's transformation of the original
\* content, without the tags only the earlier writer added.
C12_LastWriterWins ==
    (Len(Writes) = 2 /\ Overlapped) =>
        /\ file = Transformed(Writes[2].by, before)
        /\ Len(Anchors(Writes[1].content)) = Len(Anchors(before))
        /\ \A k \in DOMAIN Anchors(before) :
               \A t \in AddedTags(before, Writes[1].content, k) :
                   t \notin TagSet(Anchors(Transformed(Writes[2].by, before))[k])
                       => t \notin TagSet(Anchors(file)[k])

\* C12 (no overlap): when the second run begins after the first has
\* ended, its output holds the tags the first run added.
C12_AdditionsKept ==
    (Len(Writes) = 2 /\ Apart) =>
        /\ Len(Anchors(Writes[1].content)) = Len(Anchors(before))
        /\ Len(Anchors(file)) = Len(Anchors(before))
        /\ \A k \in DOMAIN Anchors(before) :
               AddedTags(before, Writes[1].content, k) \subseteq TagSet(Anchors(file)[k])

\* C12: last writer wins when the runs overlap, and nothing is lost when
\* they do not.
C12_LostUpdate == C12_LastWriterWins /\ C12_AdditionsKept

----------------------------------------------------------------------------
\* The runs that were killed while they wrote

Killed == {p \in Rewriters : pc[p] = "killed"}

\* nothing beside the links file was written
NoOtherFile == csv = <<>> /\ usernames = <<>>

\* C13 as stated: a run that is interrupted after the file was opened for
\* writing and before the write completed leaves a file that is neither the
\* content that was read nor the content that was to be written; there is
\* no temporary file and no backup.
C13_TornWrite ==
    \A p \in Killed :
        /\ file # buf[p]
        /\ file # found[p]
        /\ NoOtherFile

\* C13, for a file that was not empty: a run that is interrupted after the
\* file was opened for writing and before the write completed leaves a file
\* that is neither the content that was read nor the content that was to be
\* written; there is no temporary file and no backup.
C13_TornWriteOfContent ==
    \A p \in Killed :
        buf[p] # <<>> =>
            /\ file # buf[p]
            /\ file # found[p]
            /\ NoOtherFile

\* a run was killed after a part of a content that differs from what it read
\* had reached the file
C13_Witness ==
    \E p \in Killed :
        /\ buf[p] # <<>>
        /\ found[p] # buf[p]
        /\ file # <<>>

----------------------------------------------------------------------------
\* Runs on a links file that does not exist

\* C14: when the content file does not exist, a script's run ends with the
\* error of its first read, and no content file, CSV file or list of user
\* names is created or modified.
C14_MissingFile ==
    [][~present => /\ exc' = "FileNotFoundError"
                   /\ UNCHANGED <<file, present, csv, usernames>>]_vars

\* the export and the analysis were both run without a links file
C14_Witness ==
    /\ ~present
    /\ {lastOp, prevOp} = {"csv", "analyze"}
    /\ exc = "FileNotFoundError"

----------------------------------------------------------------------------
\* The CSV file

\* the column of a row that is named f
Column(row, f) == row[CHOOSE k \in DOMAIN fieldnames : fieldnames[k] = f]

\* C18: extract_links_to_csv writes the header Name, Category,
\* Instagram_Username, Instagram_URL, YouTube_URL, Website_URL, Tags, then one
\* row for each record that the link pattern matches, in file order; it
\* returns the number of these rows and leaves the content file as it was.
C18_CsvRows ==
    (lastOp = "csv" /\ exc = "none") =>
        LET links == FindLinks(before, 1)
        IN  /\ csv # <<>>
            /\ csv[1] = << <<"Name">>, <<"Category">>, <<"Instagram_Username">>,
                           <<"Instagram_URL">>, <<"YouTube_URL">>, <<"Website_URL">>,
                           <<"Tags">> >>
            /\ Len(csv) = 1 + Len(links)
            /\ \A k \in DOMAIN links :
                   /\ Len(csv[k + 1]) = 7
                   /\ Column(csv[k + 1], "Instagram_URL") = links[k].url
                   /\ Column(csv[k + 1], "Tags") = links[k].tags
            /\ fixes = Len(links)
            /\ file = before

\* two records were exported, in the order of the file
C18_Witness ==
    /\ lastOp = "csv"
    /\ exc = "none"
    /\ Len(csv) = 3
    /\ Column(csv[2], "Tags") # Column(csv[3], "Tags")

----------------------------------------------------------------------------
\* Files without an anchor for a script to work on

\* the positions at which a pattern of the script matches
MatchesOf(op, s) ==
    {i \in DOMAIN s :
        CASE op = "cti"  -> link_pattern(s, i).ok
          [] op = "fti"  -> types_pattern(s, i).ok \/ untagged_pattern(s, i).ok
          [] op = "edge" -> edge_pattern(s, i).ok
          [] OTHER       -> TRUE}

\* the values of the data-tags attributes, in anchors or not
AttrValues(s) ==
    {Slice(s, d + 1, RunEnd(s, d + 1, HasQuote) - 1) :
        d \in {e \in DOMAIN s : /\ s[e] = DataTags
                                /\ RunEnd(s, e + 1, HasQuote) <= Len(s)
                                /\ s[RunEnd(s, e + 1, HasQuote)] = Q}}

\* C15 as stated: when no anchor of the file matches the script's pattern,
\* comprehensive_tag_improvement, fix_tag_issues and fix_edge_cases return 0
\* and write back the content they read.
C15_NoMatchNoChange ==
    (lastOp \in {"cti", "fti", "edge"} /\ MatchesOf(lastOp, before) = {}) =>
        /\ fixes = 0
        /\ file = before

\* C15, with no underscore in an attribute: when no anchor of the file
\* matches the script's pattern and no data-tags attribute has an underscore
\* in its value, comprehensive_tag_improvement, fix_tag_issues and
\* fix_edge_cases return 0 and write back the content they read.
C15_NoMatchNoUnderscore ==
    (/\ lastOp \in {"cti", "fti", "edge"}
     /\ MatchesOf(lastOp, before) = {}
     /\ \A v \in AttrValues(before) : ~Occurs(UND, v)) =>
        /\ fixes = 0
        /\ file = before

\* fix_tag_issues ran on a file that has anchors and attributes, none of
\* which its patterns match
C15_Witness ==
    /\ lastOp = "fti"
    /\ MatchesOf("fti", before) = {}
    /\ Occurs(AOpen, before)
    /\ AttrValues(before) # {}
    /\ \A v \in AttrValues(before) : ~Occurs(UND, v)

----------------------------------------------------------------------------
\* The records fix_edge_cases works on

\* the matches of its pattern, left to right, none overlapping
RECURSIVE EdgeRecordsFrom(_, _)
EdgeRecordsFrom(s, i) ==
    IF i > Len(s) THEN <<>>
    ELSE IF s[i] # AOpen THEN EdgeRecordsFrom(s, RunEnd(s, i, {AOpen}))
    ELSE IF edge_pattern(s, i).ok
    THEN <<edge_pattern(s, i)>> \o EdgeRecordsFrom(s, edge_pattern(s, i).end + 1)
    ELSE EdgeRecordsFrom(s, i + 1)

EdgeRecords(s) == EdgeRecordsFrom(s, 1)

Distinct(l) == \A i \in DOMAIN l : \A j \in DOMAIN l : i # j => l[i] # l[j]

FirstAt(l, t) == Min({i \in DOMAIN l : l[i] = t})

\* new holds each tag of old once, in the order of the first occurrences
FirstOccurrences(old, new) ==
    /\ Distinct(new)
    /\ Range(new) = Range(old)
    /\ \A i \in DOMAIN new : \A j \in DOMAIN new :
           i < j => FirstAt(old, new[i]) < FirstAt(old, new[j])

\* C20: fix_edge_cases replaces the tag list of each record it matches by
\* the distinct tags in the order of their first occurrence; afterwards no
\* matched record has a tag twice, every record has the set of tags it had,
\* and the count returned is the number of records that had a tag twice.
C20_Deduplicated ==
    lastOp = "edge" =>
        LET old == EdgeRecords(before)
            new == EdgeRecords(file)
        IN  /\ Len(new) = Len(old)
            /\ \A k \in DOMAIN old :
                   FirstOccurrences(Split(old[k].tags), Split(new[k].tags))
            /\ fixes = Cardinality({k \in DOMAIN old : ~Distinct(Split(old[k].tags))})

\* a record with two tags, each twice, was reduced to the two
C20_Witness ==
    /\ lastOp = "edge"
    /\ fixes >= 1
    /\ \E k \in DOMAIN EdgeRecords(before) :
           /\ Len(Split(EdgeRecords(before)[k].tags)) = 4
           /\ Split(EdgeRecords(file)[k].tags) = << <<"x">>, <<"q">> >>

----------------------------------------------------------------------------
\* Writing after the operator's answer

WritesBy(p) == {n \in DOMAIN log : log[n].ev = "write" /\ log[n].by = p}

\* C16: audit_tags, city_tag_audit, deep_tag_audit and verify_tags write the
\* file only after the operator answered y or Y at the prompt; after any
\* other answer, and during the audit before the prompt, the file is as it
\* was.
C16_WriteAfterYes ==
    \A p \in Prompters :
        /\ WritesBy(p) # {} => answer[p] \in {"y", "Y"}
        /\ (pc[p] # "off" /\ WritesBy(p) = {}) => file = before

\* the operator answered Y and the file was rewritten with other content
C16_Witness ==
    \E p \in Prompters :
        /\ answer[p] = "Y"
        /\ WritesBy(p) # {}
        /\ file # before

\* the URL of the anchor: what stands between  <a href="  and the next "
Href(a) == Slice(a.html, 2, RunEnd(a.html, 2, HasQuote) - 1)

\* the text of the file that stands in no anchor, from position i on
RECURSIVE OutsideFrom(_, _)
OutsideFrom(s, i) ==
    IF i > Len(s) THEN <<>>
    ELSE IF s[i] = AOpen THEN OutsideFrom(s, RunEnd(s, i, {AClose}) + 1)
    ELSE Slice(s, i, RunEnd(s, i, {AOpen}) - 1) \o OutsideFrom(s, RunEnd(s, i, {AOpen}))

OutsideAnchors(s) == OutsideFrom(s, 1)

\* the file from position i on without the values of its data-tags
\* attributes
RECURSIVE ErasedFrom(_, _)
ErasedFrom(s, i) ==
    IF i > Len(s) THEN <<>>
    ELSE IF s[i] = DataTags
         THEN <<DataTags>> \o ErasedFrom(s, RunEnd(s, i + 1, HasQuote))
         ELSE Slice(s, i, RunEnd(s, i, {DataTags}) - 1) \o ErasedFrom(s, RunEnd(s, i, {DataTags}))

Erased(s) == ErasedFrom(s, 1)

SameHrefAndText ==
    /\ SameAnchors
    /\ \A k \in DOMAIN Anchors(before) :
           /\ Href(Anchors(file)[k]) = Href(Anchors(before)[k])
           /\ DisplayText(Anchors(file)[k]) = DisplayText(Anchors(before)[k])

\* C17: the passes that add tags (comprehensive_tag_improvement,
\* apply_city_tags, apply_corrections) change nothing in the file but the
\* values of data-tags attributes: every anchor keeps its href and its
\* display text, the anchors keep their number and order, and the text
\* outside anchors is the same after the run as before.
C17_Frame ==
    lastOp \in TagAdders =>
        /\ Erased(file) = Erased(before)
        /\ SameHrefAndText
        /\ OutsideAnchors(file) = OutsideAnchors(before)

\* C17 without its last part: only values of data-tags attributes change,
\* and the anchors keep their number, order, href and display text.
C17_FrameOfValues ==
    lastOp \in TagAdders =>
        /\ Erased(file) = Erased(before)
        /\ SameHrefAndText

\* C19: after fix_tag_issues no data-tags attribute of the file holds a tag
\* with an underscore, the tags that the run adds to links without tags
\* included.
C19_NoUnderscore ==
    lastOp = "fti" => \A v \in AttrValues(file) : ~Occurs(UND, v)

\* C19 for the attributes the file had before the run: where the file
\* held no anchor without a data-tags attribute, no attribute holds an
\* underscore after fix_tag_issues.
C19_NoUnderscoreInTagged ==
    (lastOp = "fti" /\ \A k \in DOMAIN Anchors(before) : HasTagsAttr(Anchors(before)[k]))
        => \A v \in AttrValues(file) : ~Occurs(UND, v)

----------------------------------------------------------------------------
\* The category column

\* the categories in the order of the claim, each with its keywords
CategoryOrder ==
    << [name |-> "Diplomatic",      kws |-> {"embassy", "consulate"}],
       [name |-> "Cultural",        kws |-> {"museum", "culture", "teatro", "library"}],
       [name |-> "Government",      kws |-> {"government", "ministry", "alcaldia"}],
       [name |-> "Food & Beverage", kws |-> {"food", "restaurant", "coffee"}],
       [name |-> "Education",       kws |-> {"university", "education"}],
       [name |-> "Travel",          kws |-> {"travel", "tourism"}],
       [name |-> "Organization",    kws |-> {"ngo", "organization"}] >>

\* the categories with a keyword that occurs in the tag string
Hits(tags) == {c \in DOMAIN CategoryOrder : AnyIn(CategoryOrder[c].kws, tags)}

FirstCategory(tags) ==
    IF Hits(tags) = {} THEN <<"Other">> ELSE <<CategoryOrder[Min(Hits(tags))].name>>

\* C29: extract_links_to_csv gives each record one category: the first of
\* Diplomatic, Cultural, Government, Food & Beverage, Education, Travel,
\* Organization with a keyword that occurs in the record's tag string, and
\* Other when none does; a record with an embassy keyword and a museum
\* keyword is Diplomatic.
C29_FirstCategory ==
    (lastOp = "csv" /\ exc = "none") =>
        \A k \in DOMAIN FindLinks(before, 1) :
            /\ Len(csv) > k
            /\ Column(csv[k + 1], "Category") = FirstCategory(FindLinks(before, 1)[k].tags)
            /\ (Occurs("embassy", FindLinks(before, 1)[k].tags)
                   => Column(csv[k + 1], "Category") = <<"Diplomatic">>)

\* a record with the tags museum and embassy was exported as Diplomatic
C29_Witness ==
    /\ lastOp = "csv"
    /\ exc = "none"
    /\ \E k \in DOMAIN FindLinks(before, 1) :
           /\ Occurs("embassy", FindLinks(before, 1)[k].tags)
           /\ Occurs("museum", FindLinks(before, 1)[k].tags)
           /\ Column(csv[k + 1], "Category") = <<"Diplomatic">>

----------------------------------------------------------------------------
\* Location texts

\* the opening tag of an anchor: up to its first >
OpeningTag(a) == Slice(a.html, 1, RunEnd(a.html, 1, HasGT))

\* the text before the first bullet
BeforeBullet(text) == Slice(text, 1, RunEnd(text, 1, {Bullet}) - 1)

SameOpeningTags ==
    /\ SameAnchors
    /\ \A k \in DOMAIN Anchors(before) :
           OpeningTag(Anchors(file)[k]) = OpeningTag(Anchors(before)[k])

BulletsCut ==
    \A k \in DOMAIN Anchors(before) :
        Occurs(Bullet, DisplayText(Anchors(before)[k]))
            => DisplayText(Anchors(file)[k])
                   = strip(BeforeBullet(DisplayText(Anchors(before)[k])))

\* C30: clean_link_text replaces the display text of every anchor with a
\* bullet by the trimmed text before the first bullet, leaves every opening
\* tag, every anchor without a bullet and the text between anchors as
\* they were, and keeps the number of anchors.
C30_LocationsCleaned ==
    lastOp = "clean" =>
        /\ SameOpeningTags
        /\ BulletsCut
        /\ \A k \in DOMAIN Anchors(before) :
               ~Occurs(Bullet, DisplayText(Anchors(before)[k]))
                   => Anchors(file)[k].html = Anchors(before)[k].html
        /\ OutsideAnchors(file) = OutsideAnchors(before)

\* C30 with anchors without a bullet compared up to the white space at the
\* ends of their display text
C30_LocationsCleanedTrimmed ==
    lastOp = "clean" =>
        /\ SameOpeningTags
        /\ BulletsCut
        /\ \A k \in DOMAIN Anchors(before) :
               ~Occurs(Bullet, DisplayText(Anchors(before)[k]))
                   => strip(DisplayText(Anchors(file)[k]))
                          = strip(DisplayText(Anchors(before)[k]))
        /\ OutsideAnchors(file) = OutsideAnchors(before)

\* C30 for files in which no display text begins or ends with white space
C30_LocationsCleanedOfTrimmed ==
    (\A k \in DOMAIN Anchors(before) :
         DisplayText(Anchors(before)[k]) = strip(DisplayText(Anchors(before)[k])))
        => C30_LocationsCleaned

----------------------------------------------------------------------------
\* The fixes of deep_tag_audit

\* the tags deep_tag_audit reports as missing for the record of an anchor
ReportedFor(m) ==
    IF ~m.ok THEN {}
    ELSE {i.tag : i \in Range(deep_links(<<m>>, 1))}

Reported(a) == ReportedFor(link_pattern(a.html, 1))

\* C21: fix_missing_tags changes only the records for which deep_tag_audit
\* reported a missing tag, adds to each only tags reported for it, and
\* removes no tag, also when several records are fixed in one run and when
\* two records have the same display text.
C21_OnlyReported ==
    lastOp = "deep" =>
        /\ SameAnchors
        /\ \A k \in DOMAIN Anchors(before) :
               /\ TagSet(Anchors(before)[k]) \subseteq TagSet(Anchors(file)[k])
               /\ (TagSet(Anchors(file)[k]) \ TagSet(Anchors(before)[k]))
                      \subseteq Reported(Anchors(before)[k])

\* C21 for files in which no two records have the same display text
C21_OnlyReportedOfDistinctTexts ==
    (\A j, k \in DOMAIN Anchors(before) :
         j # k => DisplayText(Anchors(before)[j]) # DisplayText(Anchors(before)[k]))
        => C21_OnlyReported

----------------------------------------------------------------------------
\* Verifying again

\* verify_tags has been called on the file that apply_corrections wrote
VerifiedAgain ==
    /\ lastOp = "rerun"
    /\ prevOp = "verify"
    /\ pc["verify"] \in {"prompt", "done"}

\* C22: after apply_corrections with the corrections that verify_tags
\* returned for the file, a second call of verify_tags returns no
\* correction, also where two records have the same URL and display text.
C22_FixedPoint == VerifiedAgain => found["verify"] = <<>>

\* the user name that verify_tags derives from the URL of every record is
\* one tag: not empty and without white space
PlainUserNames(s) ==
    \A k \in DOMAIN FindLinks(s, 1) :
        Split(verify_username(FindLinks(s, 1)[k].url)) = <<verify_username(FindLinks(s, 1)[k].url)>>

\* no two records have the same URL and display text
NoTwins(s) ==
    \A j, k \in DOMAIN FindLinks(s, 1) :
        (j # k /\ FindLinks(s, 1)[j].url = FindLinks(s, 1)[k].url)
            => FindLinks(s, 1)[j].text # FindLinks(s, 1)[k].text

\* C22 for files without twins in which every user name is one tag
C22_FixedPointOfPlain ==
    (VerifiedAgain /\ PlainUserNames(before) /\ NoTwins(before)) => found["verify"] = <<>>

C22_Witness ==
    /\ VerifiedAgain
    /\ PlainUserNames(before)
    /\ NoTwins(before)
    /\ Len(FindLinks(before, 1)) = 2
    /\ pc["verify"] = "done"

----------------------------------------------------------------------------
\* An audit that is stale when its fixes are applied

\* the place in the log of the event ev of script p (each happens once)
EventAt(ev, p) == {n \in DOMAIN log : log[n].ev = ev /\ log[n].by = p}

\* comprehensive_tag_improvement wrote the file after audit_city_tags had
\* read it and before apply_city_tags read it, and apply_city_tags has
\* written
WroteBetween ==
    /\ pc["city"] = "done"
    /\ EventAt("write", "city") # {}
    /\ EventAt("write", "cti") # {}
    /\ \A a \in EventAt("audit", "city") : \A w \in EventAt("write", "cti") :
       \A r \in EventAt("read", "city") : a < w /\ w < r

\* the content the other script wrote
WrittenBy(p) == log[Min(EventAt("write", p))].content

\* the anchors with the URL and the text of a fix
AnchorsOf(s, fix) ==
    {k \in DOMAIN Anchors(s) :
        /\ Href(Anchors(s)[k]) = fix.url
        /\ DisplayText(Anchors(s)[k]) = fix.text}

\* C23: when another script adds tags to a record after audit_city_tags and
\* before apply_city_tags, the record has those tags after apply_city_tags,
\* together with the city tags of the audit.
C23_StaleAuditSafe ==
    WroteBetween =>
        /\ Len(Anchors(file)) = Len(Anchors(before))
        /\ Len(Anchors(WrittenBy("cti"))) = Len(Anchors(before))
        /\ \A k \in DOMAIN Anchors(before) :
               AddedTags(before, WrittenBy("cti"), k) \subseteq TagSet(Anchors(file)[k])
        /\ \A n \in DOMAIN found["city"] :
               /\ AnchorsOf(file, found["city"][n]) # {}
               /\ Range(found["city"][n].tags)
                      \subseteq TagSet(Anchors(file)[Min(AnchorsOf(file, found["city"][n]))])

\* the other script added a tag, the audit asked for a city tag, and the
\* fixes were applied to what the other script wrote
C23_Witness ==
    /\ WroteBetween
    /\ found["city"] # <<>>
    /\ \E k \in DOMAIN Anchors(before) : AddedTags(before, WrittenBy("cti"), k) # {}
    /\ file # WrittenBy("cti")

----------------------------------------------------------------------------
\* Rounds of the pipeline

\* the last of the rounds has ended
LastRoundDone == lastOp = "cti" /\ runs = 2 * MaxRounds

\* no data-tags value of the content holds a tag twice
NoDuplicateTag(s) == \A v \in AttrValues(s) : Distinct(Split(v))

\* a step of the last of the rounds has been taken
InLastRound == runs > 2 * (MaxRounds - 1)

\* C24: rounds of fix_tag_issues followed by comprehensive_tag_improvement
\* reach a fixed point: after finitely many rounds a further round leaves
\* the content of the file as it was, at each of its two runs, and
\* introduces no duplicate tag.
C24_Converges ==
    InLastRound =>
        /\ file = before
        /\ NoDuplicateTag(before) => NoDuplicateTag(file)

\* C24 for the ends of the rounds only: the last round ends with the
\* content it began with.
C24_ConvergesAtRoundEnds == LastRoundDone => file = buf["fti"]

----------------------------------------------------------------------------
\* sort_links.py run again, and what it leaves alone

SortedTwice == lastOp = "sort" /\ prevOp = "sort"

\* C25: sort_link_section(sort_link_section(c)) = sort_link_section(c) for
\* every content c, the white space between the anchors of a link grid
\* included.
C25_SortIdempotent == SortedTwice => file = before

\* the anchors of a piece of the file without the white space before them
NoLead(l) == Slice(l, RunEnd(l, 1, Range(l) \ Space), Len(l))

TrimmedLinks(s) == [k \in DOMAIN grid_links(s, 1) |-> NoLead(grid_links(s, 1)[k])]

\* C25 without the white space: the second run keeps the anchors of every
\* grid in the order of the first.
C25_SortIdempotentUpToSpace ==
    SortedTwice =>
        /\ Len(Grids(file)) = Len(Grids(before))
        /\ \A k \in DOMAIN Grids(before) :
               TrimmedLinks(Grids(file)[k]) = TrimmedLinks(Grids(before)[k])

\* the pieces of the file outside the link grids, in file order
RECURSIVE OutsideGridsFrom(_, _)
OutsideGridsFrom(s, i) ==
    IF i > Len(s) THEN <<>>
    ELSE IF s[i] = DivOpen /\ RunEnd(s, i + 1, {DivClose}) <= Len(s)
         THEN <<DivOpen, DivClose>> \o OutsideGridsFrom(s, RunEnd(s, i + 1, {DivClose}) + 1)
         ELSE <<s[i]>> \o OutsideGridsFrom(s, i + 1)

\* the file with the content of every link grid taken out
OutsideGrids(s) == OutsideGridsFrom(s, 1)

\* the anchors of a grid as a bag
AnchorBag(g) ==
    LET l == AnchorHtmls(g)
    IN  [h \in Range(l) |-> Cardinality({k \in DOMAIN l : l[k] = h})]

\* C26: sort_link_section only reorders: every link grid holds the same
\* anchors, each as often, before and after; the grids keep their order
\* and the text outside the grids is unchanged.
C26_OnlyReorders ==
    lastOp = "sort" =>
        /\ Len(Grids(file)) = Len(Grids(before))
        /\ \A k \in DOMAIN Grids(before) :
               AnchorBag(Grids(file)[k]) = AnchorBag(Grids(before)[k])
        /\ OutsideGrids(file) = OutsideGrids(before)

\* a run of sort_links.py that moved an anchor of a file with two grids
C26_Witness ==
    /\ lastOp = "sort"
    /\ Len(Grids(before)) = 2
    /\ \E k \in DOMAIN Grids(before) :
           AnchorHtmls(Grids(file)[k]) # AnchorHtmls(Grids(before)[k])
    /\ \E i \in DOMAIN before : before[i] \notin Space /\ i < Min({j \in DOMAIN before : before[j] = DivOpen})

----------------------------------------------------------------------------
\* enrich_youtube_links.py run again

UpdatedTwice == lastOp = "js" /\ prevOp = "js"

\* C27: a second run of update_js_file leaves the JavaScript file as the
\* first run left it, the indentation of the youtubeMap literal included.
C27_UpdateIdempotent == UpdatedTwice => file = before

\* the content without its blanks
NoBlanks(s) == SelectSeq(s, LAMBDA t : t # SP)

\* the literals of the content: what stands between const youtubeMap = {
\* and the next }, blanks and newlines left out
MapBodies(s) ==
    { SelectSeq(Slice(s, i + 1, RunEnd(s, i + 1, {RBrace}) - 1), LAMBDA t : t \notin Space) :
        i \in {j \in DOMAIN s : s[j] = ConstMap /\ map_pattern(s, j) # 0} }

\* one entry per key of youtube_mappings, in the order of the user names
SortedEntries ==
    Flatten([n \in DOMAIN UsernameOrder |->
        SelectSeq(map_line(sorted_items[n]), LAMBDA t : t \notin Space)])

\* C27 without the indentation: the second run changes nothing but
\* blanks, and after a run every youtubeMap literal that was replaced
\* holds one entry per key, sorted by user name.
C27_UpdateIdempotentUpToBlanks ==
    /\ UpdatedTwice => NoBlanks(file) = NoBlanks(before)
    /\ lastOp = "js" =>
           \A b \in MapBodies(file) : rstrip_comma_newline(SortedEntries) = b

----------------------------------------------------------------------------
\* The end of deep_tag_audit.main

\* the content holds a record with at least one tag
TaggedRecord(s) ==
    \E k \in DOMAIN FindLinks(s, 1) : Split(FindLinks(s, 1)[k].tags) # <<>>

\* C28: when the file holds at least one tagged record, deep_tag_audit.main
\* ends normally after its final statistics, whether the operator had the
\* fixes applied or not.
C28_MainEndsNormally ==
    (pc["deep"] = "done" /\ TaggedRecord(before)) => exc = "none"

\* what does hold: with a tagged record main always ends with the
\* NameError of line 227, applied or not
C28_MainEndsWithNameError ==
    (pc["deep"] = "done" /\ TaggedRecord(before)) => exc = "NameError"

====
